---- MODULE Spec2Model ----
(***************************************************************************)
(* Scrolling-frame pipeline of NewRollVideo.                               *)
(*                                                                         *)
(*   Spec     VideoRenderer.create_scrolling_video_optimized: planning,    *)
(*            encoder child process, watchdog thread, batch loop, stdin    *)
(*            hand-over, post-stream wait, the two exception handlers and  *)
(*            the recursive software fallback.                             *)
(*   GenSpec  RollVideoService._create_frame_generator.frame_generator:    *)
(*            the closure with its position accumulator and frame cache.   *)
(*   OldSpec  VideoRenderer.create_scrolling_video: the streaming tail     *)
(*            (write loop, stdin close, wait, exit-status check).          *)
(*                                                                         *)
(* Time is a family of saturating timers advanced together by Tick; one    *)
(* tick is TickSeconds of wall-clock time.  Durations shorter than a tick  *)
(* (0.5 s report interval, 0.5 s / 1 s sleeps) are interleaving points.    *)
(* A measured difference that equals a limit exactly in model time may be  *)
(* above or below it in real time, so such comparisons are nondeterministic*)
(* at the boundary (see Exceeds).                                          *)
(***************************************************************************)
EXTENDS Integers, Sequences, FiniteSets, TLC

\* ------------------------------------------------------------------ bounds
MaxDepth == 3
MaxFaults == 1
MaxCalls == 5

\* --------------------------------------------------------------- constants
chunk_size == 12
watchdog_timeout == 30
encoding_timeout == 120
TickSeconds == watchdog_timeout \div 2
\* pool_size = max(2, min(cpu_count - 1, 8))
CpuCounts == 1..10
pool_size(cpu_count) == IF 2 > (IF cpu_count - 1 < 8 THEN cpu_count - 1 ELSE 8)
                        THEN 2
                        ELSE (IF cpu_count - 1 < 8 THEN cpu_count - 1 ELSE 8)
MinScrollSeconds == 8
PaddingSecondsTimes10 == 20

NoFrame == -1

\* ----------------------------------------------------------------- helpers
Min(a, b) == IF a < b THEN a ELSE b
Max(a, b) == IF a > b THEN a ELSE b

\* Rational numbers are pairs <<numerator, denominator>> with denominator > 0.
RatLess(a, b) == a[1] * b[2] < b[1] * a[2]
\* int(n / r) for an integer n >= 0 and a rational r > 0.
IntDiv(n, r) == (n * r[2]) \div r[1]

\* current_time - t0 > limit, for a difference measured on the tick grid.
Exceeds(elapsed, limit) ==
    IF elapsed > limit THEN {TRUE}
    ELSE IF elapsed < limit THEN {FALSE}
    ELSE BOOLEAN

\* ---------------------------------------------------------------- planning
\* Lines 367-388 of create_scrolling_video_optimized.
scroll_distance_of(text_actual_height, img_height, height) ==
    Max(text_actual_height, img_height - height)

raw_scroll_frames(distance, speed) ==
    IF speed[1] > 0 THEN IntDiv(distance, speed) ELSE 0

NeedsSlowdown(distance, speed, fps) ==
    LET sf == raw_scroll_frames(distance, speed)
        min_scroll_frames == fps * MinScrollSeconds
    IN  /\ sf < min_scroll_frames
        /\ sf > 0
        /\ RatLess(<<distance, min_scroll_frames>>, speed)

planned_speed(distance, speed, fps) ==
    IF NeedsSlowdown(distance, speed, fps)
    THEN <<distance, fps * MinScrollSeconds>>
    ELSE speed

\* The scroll frames without the minimum of lines 374-381.
planned_scroll_frames_Raw(distance, speed, fps) ==
    raw_scroll_frames(distance, speed)

planned_scroll_frames(distance, speed, fps) ==
    IF NeedsSlowdown(distance, speed, fps)
    THEN fps * MinScrollSeconds
    ELSE raw_scroll_frames(distance, speed)

padding_frames(fps) == (fps * PaddingSecondsTimes10) \div 10

planned_total_frames(distance, speed, fps) ==
    padding_frames(fps) + planned_scroll_frames(distance, speed, fps)
        + padding_frames(fps)

\* ----------------------------------------------------------------- encoder
\* _get_codec_parameters: the video codec chosen for the argument vector.
GetCodec(preferred, transparency_required, channels, force_cpu, system) ==
    IF transparency_required \/ channels = 4 THEN "prores_ks"
    ELSE IF preferred = "h264_nvenc" /\ ~force_cpu
         THEN IF system \in {"Windows", "Linux"} THEN "h264_nvenc" ELSE "libx264"
    ELSE IF preferred = "h264_videotoolbox" THEN "libx264"
    ELSE IF preferred = "prores_ks" THEN "prores_ks"
    ELSE "libx264"

GetPixFmt(transparency_required, channels) ==
    IF transparency_required \/ channels = 4 THEN "rgba" ELSE "rgb24"

\* ------------------------------------------------------------------- state
VARIABLES
    \* create_scrolling_video_optimized, main thread
    pc,                \* position of the innermost active call
    depth,             \* number of active (nested) calls
    attempts,          \* calls of create_scrolling_video_optimized made so far
    outcome,           \* result of the outermost call
    retval,            \* value a nested call handed back to its caller
    inp,               \* arguments and renderer geometry of the call
    preferred_codec,   \* argument of the innermost call
    codec,             \* -c:v of the argument vector of the innermost call
    no_gpu_env,        \* "NO_GPU" in os.environ
    scroll_speed,      \* self.scroll_speed, a rational
    total_frames,
    batch_idx,
    results,           \* what pool.map returned for the current batch
    ri,                \* position of the write loop in results
    frames_processed,
    pbar_open,
    retry_attempted,
    return_code,
    sinceReport,       \* current_time - last_report_time
    waitElapsed,       \* current_time - wait_start_time
    \* watchdog thread
    wd_pc,
    watchdog_event,
    last_check_frames,
    sinceCheck,        \* current_time - last_check_time
    wdWaited,          \* time spent in the current watchdog_event.wait
    sinceTerm,         \* time since the watchdog called terminate()
    \* encoder child process
    encState,
    encCode,
    encReadOpen,       \* the child still holds the read end of its stdin
    encStalled,        \* the child has stopped reading its stdin
    stdin_closed,      \* process.stdin.close() has been called
    termSent,
    killSent,
    \* history
    written,           \* frame indices written to stdin, in order
    computed,          \* frames handed to pool.map in this attempt
    writeAttempts,     \* calls of process.stdin.write in this attempt
    hist,              \* what has happened during the call
    faults,            \* injected failures so far
    \* frame generator of the service
    gen,
    \* create_scrolling_video
    old,
    \* create_roll_video of the service
    svc,
    \* preparation block of create_scrolling_video_optimized, in detail
    prep,
    \* choice of the encoder in each entry point
    sel,
    \* the three pipes between a streaming entry point and its encoder
    io,
    \* frame plan of the renderer and the start rows of the legacy path
    fplan,
    \* watchdog_handler and report_progress against the clock
    wdg

pipeVars == <<pc, depth, attempts, outcome, retval, inp, preferred_codec, codec,
              no_gpu_env, scroll_speed, total_frames, batch_idx, results, ri,
              frames_processed, pbar_open, retry_attempted, return_code,
              sinceReport, waitElapsed>>
wdVars == <<wd_pc, watchdog_event, last_check_frames, sinceCheck, wdWaited,
            sinceTerm>>
encVars == <<encState, encCode, encReadOpen, encStalled, stdin_closed,
             termSent, killSent>>
histVars == <<written, computed, writeAttempts, hist, faults>>
vars == <<pipeVars, wdVars, encVars, histVars, gen, old, svc, prep, sel, io, fplan, wdg>>

\* ------------------------------------------------------------------ inputs
Codecs == {"h264_nvenc", "libx264"}

\* Calls of create_scrolling_video_optimized that are explored: a short
\* image (no scroll frames, one batch of 4 frames) with every codec and
\* environment, and a longer image (9 scroll frames, batches of 12 and 1).
ShortCall ==
    [text_actual_height |-> 2, img_height |-> 6, height |-> 4, fps |-> 1,
     transparency_required |-> FALSE, system |-> "Linux", speed |-> <<3, 1>>]
LongCall ==
    [text_actual_height |-> 2, img_height |-> 13, height |-> 4, fps |-> 1,
     transparency_required |-> FALSE, system |-> "Linux", speed |-> <<1, 1>>]

Calls ==
    {[call |-> ShortCall, codec |-> c, no_gpu |-> g] : c \in Codecs, g \in BOOLEAN}
    \cup {[call |-> LongCall, codec |-> "h264_nvenc", no_gpu |-> FALSE]}

CodecOf(pref, forceCpu) ==
    GetCodec(pref, inp.transparency_required,
             IF inp.transparency_required THEN 4 ELSE 3, forceCpu, inp.system)

total_batches == (total_frames + chunk_size - 1) \div chunk_size

\* The whole remainder of the task list as one batch.
batch_end_WholeRest(start_idx) == total_frames

\* Line 670: end_idx = min(start_idx + chunk_size, len(frame_tasks)).
batch_end(start_idx) == Min(start_idx + chunk_size, total_frames)

\* frame_tasks[i] = (i, frame_meta): head, scroll and tail tasks are appended
\* in index order, so the task at position i carries frame index i.
frame_tasks(i) == i

\* _process_frame_optimized_shm returns (frame_idx, frame), or None.
process_frame_result(task, ok) == IF ok THEN task ELSE NoFrame

\* Orders in which the workers can finish the n tasks of a batch: order[k]
\* is the position in the batch of the task that finishes k-th.  In input
\* order, in reverse, and with the first task finishing last.
CompletionOrders(n) ==
    {[k \in 1..n |-> k], [k \in 1..n |-> n + 1 - k],
     [k \in 1..n |-> IF k = n THEN 1 ELSE k + 1]}

\* The tasks of the batch as the workers finish them.
Completed(start_idx, end_idx, noneAt, order) ==
    [k \in 1..(end_idx - start_idx) |->
        [pos |-> order[k],
         result |-> process_frame_result(frame_tasks(start_idx + order[k] - 1),
                                         start_idx + order[k] - 1 # noneAt)]]

\* The results in the order in which the workers finished (imap_unordered).
pool_map_Unordered(completed) ==
    [k \in 1..Len(completed) |-> completed[k].result]

\* pool.map returns the results in the order of its inputs.
pool_map(completed) ==
    [p \in 1..Len(completed) |->
        completed[CHOOSE k \in 1..Len(completed) : completed[k].pos = p].result]

BatchResults(start_idx, end_idx, noneAt, order) ==
    pool_map(Completed(start_idx, end_idx, noneAt, order))

\* Positions of a batch at which a worker is made to return None.
NonePositions(start_idx, end_idx) == {start_idx, end_idx - 1}

PipeIdle ==
    /\ wd_pc = "wd_none" /\ watchdog_event = FALSE /\ last_check_frames = 0
    /\ sinceCheck = 0 /\ wdWaited = 0 /\ sinceTerm = 0
    /\ encState = "none" /\ encCode = 0 /\ encReadOpen = FALSE
    /\ encStalled = FALSE /\ stdin_closed = FALSE
    /\ termSent = FALSE /\ killSent = FALSE
    /\ written = <<>> /\ computed = 0 /\ writeAttempts = 0
    /\ hist = {} /\ faults = 0
    /\ batch_idx = 0 /\ results = <<>> /\ ri = 1 /\ frames_processed = 0
    /\ pbar_open = FALSE /\ retry_attempted = FALSE /\ return_code = 0
    /\ sinceReport = 0 /\ waitElapsed = 0 /\ total_frames = 0
    /\ retval = "unset" /\ outcome = "running"

GenIdle == gen = [phase |-> "off"]
OldIdle == old = [phase |-> "off", pc |-> "off"]
SvcIdle == svc = [phase |-> "off"]
PrepIdle == prep = [phase |-> "off"]
SelIdle == sel = [phase |-> "off"]
IoIdle == io = [phase |-> "off"]
PlanIdle == fplan = [phase |-> "off"]
WdgIdle == wdg = [phase |-> "off"]

Init ==
    /\ pc = "prep" /\ depth = 1 /\ attempts = 1
    /\ \E c \in Calls :
          /\ inp = c.call
          /\ preferred_codec = c.codec
          /\ no_gpu_env = c.no_gpu
          /\ scroll_speed = c.call.speed
    /\ codec = "unset"
    /\ PipeIdle /\ GenIdle /\ OldIdle /\ SvcIdle /\ PrepIdle /\ SelIdle /\ IoIdle /\ PlanIdle /\ WdgIdle

\* -------------------------------------------------- returning from a call
\* A value leaving the innermost call: the outermost call ends, a nested
\* call hands the value to the finally clause of its caller (lines 911-927).
Return(v) ==
    IF depth = 1
    THEN /\ pc' = "done" /\ outcome' = v /\ UNCHANGED <<depth, retval>>
    ELSE /\ pc' = "finally" /\ retval' = v /\ depth' = depth - 1
         /\ UNCHANGED outcome

Fault == /\ faults < MaxFaults /\ faults' = faults + 1

\* -------------------------------------------------------------- main thread
\* Lines 285-465: conversion, planning, old output removal, shared memory,
\* codec parameters and argument vector.  An exception raised here reaches
\* the outer handler; it may come before or after the planning block.
\* Line 421 creates the named shared-memory segment of the call; the
\* function has no shm.close(), shm.unlink() or cleanup_shared_memory() call.
Prepare ==
    /\ pc = "prep"
    /\ LET d == scroll_distance_of(inp.text_actual_height, inp.img_height,
                                   inp.height)
           planned == planned_speed(d, scroll_speed, inp.fps)
           total == planned_total_frames(d, scroll_speed, inp.fps)
       IN \/ /\ scroll_speed' = planned
             /\ total_frames' = total
             /\ codec' = CodecOf(preferred_codec, no_gpu_env)
             /\ pc' = "spawn"
             /\ hist' = hist \cup {"shm_created"}
             /\ UNCHANGED faults
          \/ /\ Fault
             /\ \E late \in BOOLEAN :
                   /\ scroll_speed' = IF late THEN planned ELSE scroll_speed
                   /\ total_frames' = IF late THEN total ELSE total_frames
             /\ hist' = hist \cup {"prepare_exception"}
             /\ pc' = "outer_except"
             /\ UNCHANGED codec
    /\ UNCHANGED <<depth, attempts, outcome, retval, inp, preferred_codec,
                   no_gpu_env, batch_idx, results, ri, frames_processed,
                   pbar_open, retry_attempted, return_code, sinceReport,
                   waitElapsed>>
    /\ UNCHANGED <<wdVars, encVars, written, computed, writeAttempts, gen, old, svc, prep, sel, io, fplan, wdg>>

\* Lines 906-927: the outer handler sets NO_GPU and calls the function again
\* with libx264; the history records that the outermost call found NO_GPU
\* already set at line 910.  At the recursion limit the nested call raises, the handler
\* returns None and the finally clause removes NO_GPU.
OuterExcept ==
    /\ pc = "outer_except"
    /\ IF depth < MaxDepth
       THEN /\ no_gpu_env' = TRUE
            /\ depth' = depth + 1
            /\ attempts' = attempts + 1
            /\ preferred_codec' = "libx264"
            /\ pc' = "prep"
            /\ hist' = IF depth = 1 /\ no_gpu_env
                       THEN hist \cup {"no_gpu_overwritten"} ELSE hist
            /\ UNCHANGED <<outcome, retval>>
       ELSE /\ no_gpu_env' = FALSE
            /\ hist' = hist \cup {"recursion_limit"}
            /\ Return("None")
            /\ UNCHANGED <<attempts, preferred_codec>>
    /\ UNCHANGED <<inp, codec, scroll_speed, total_frames, batch_idx, results,
                   ri, frames_processed, pbar_open, retry_attempted,
                   return_code, sinceReport, waitElapsed>>
    /\ UNCHANGED <<wdVars, encVars, written, computed, writeAttempts, faults,
                   gen, old, svc, prep, sel, io, fplan, wdg>>

\* Lines 924-927 of the caller: finally removes NO_GPU, then the value of the
\* nested call is returned.
Finally ==
    /\ pc = "finally"
    /\ no_gpu_env' = FALSE
    /\ Return(retval)
    /\ UNCHANGED <<attempts, inp, preferred_codec, codec, scroll_speed,
                   total_frames, batch_idx, results, ri, frames_processed,
                   pbar_open, retry_attempted, return_code, sinceReport,
                   waitElapsed>>
    /\ UNCHANGED <<wdVars, encVars, histVars, gen, old, svc, prep, sel, io, fplan, wdg>>

\* Lines 466-661: pool, Popen, drain threads, task list, progress bar,
\* watchdog thread, first watchdog_event.set().  Popen (or the pool) may
\* raise before a process exists; starting the watchdog thread may raise
\* with the process running and the progress bar open.
Spawn ==
    /\ pc = "spawn"
    /\ \/ /\ Fault
          /\ hist' = hist \cup {"spawn_failure"}
          /\ pc' = "inner_except"
          /\ UNCHANGED <<wdVars, encVars, pbar_open>>
       \/ /\ Fault
          /\ hist' = hist \cup {"thread_start_failure"}
          /\ pc' = "inner_except"
          /\ encState' = "running" /\ encReadOpen' = TRUE
          /\ pbar_open' = TRUE
          /\ UNCHANGED <<wdVars, encCode, encStalled, stdin_closed, termSent,
                         killSent>>
       \/ /\ encState' = "running" /\ encReadOpen' = TRUE
          /\ pbar_open' = TRUE
          /\ wd_pc' = "wd_wait" /\ watchdog_event' = TRUE
          /\ pc' = "submit"
          /\ UNCHANGED <<last_check_frames, sinceCheck, wdWaited, sinceTerm,
                         encCode, encStalled, stdin_closed, termSent, killSent,
                         hist, faults>>
    /\ UNCHANGED <<depth, attempts, outcome, retval, inp, preferred_codec,
                   codec, no_gpu_env, scroll_speed, total_frames, batch_idx,
                   results, ri, frames_processed, retry_attempted, return_code,
                   sinceReport, waitElapsed>>
    /\ UNCHANGED <<written, computed, writeAttempts, gen, old, svc, prep, sel, io, fplan, wdg>>

\* Lines 667-675 and 707-709: the next batch goes to pool.map.  A worker
\* exception is logged and the loop goes on to the poll at line 712.  The
\* history records a batch that was computed after a failed child had exited.
SubmitBatch ==
    /\ pc = "submit"
    /\ LET start_idx == batch_idx * chunk_size
           end_idx == batch_end(start_idx)
           late == IF encState = "exited" /\ encCode # 0
                   THEN {"computed_after_exit"} ELSE {}
       IN \/ /\ Fault
             /\ hist' = hist \cup {"worker_exception"} \cup late
             /\ computed' = computed + (end_idx - start_idx)
             /\ pc' = "poll_batch"
             /\ UNCHANGED <<results, ri>>
          \/ /\ \E noneAt \in {NoFrame} \cup
                      (IF faults < MaxFaults THEN NonePositions(start_idx, end_idx) ELSE {}),
                      order \in CompletionOrders(end_idx - start_idx) :
                   /\ results' = BatchResults(start_idx, end_idx, noneAt, order)
                   /\ faults' = IF noneAt = NoFrame THEN faults ELSE faults + 1
                   /\ hist' = IF noneAt = NoFrame THEN hist \cup late
                              ELSE hist \cup {"none_result"} \cup late
             /\ computed' = computed + (end_idx - start_idx)
             /\ ri' = 1
             /\ pc' = "result"
    /\ UNCHANGED <<depth, attempts, outcome, retval, inp, preferred_codec,
                   codec, no_gpu_env, scroll_speed, total_frames, batch_idx,
                   frames_processed, pbar_open, retry_attempted, return_code,
                   sinceReport, waitElapsed>>
    /\ UNCHANGED <<wdVars, encVars, written, writeAttempts, gen, old, svc, prep, sel, io, fplan, wdg>>

\* Lines 678-685: the next result; None is skipped; process.poll() before
\* the write.
NextResult ==
    /\ pc = "result"
    /\ IF ri > Len(results) THEN pc' = "poll_batch" /\ ri' = ri
       ELSE IF results[ri] = NoFrame THEN pc' = "result" /\ ri' = ri + 1
       ELSE IF encState = "exited" THEN pc' = "poll_batch" /\ ri' = ri
       ELSE pc' = "write" /\ ri' = ri
    /\ UNCHANGED <<depth, attempts, outcome, retval, inp, preferred_codec,
                   codec, no_gpu_env, scroll_speed, total_frames, batch_idx,
                   results, frames_processed, pbar_open, retry_attempted,
                   return_code, sinceReport, waitElapsed>>
    /\ UNCHANGED <<wdVars, encVars, histVars, gen, old, svc, prep, sel, io, fplan, wdg>>

\* Lines 572-605: report_progress sets the watchdog event when at least
\* 0.5 s have passed since the last report.
ReportDue == IF sinceReport > 0 THEN {TRUE} ELSE BOOLEAN

\* WriteFrame with frames_processed += 1 ahead of the write.
WriteFrame_CountFirst ==
    /\ pc = "write"
    /\ \/ /\ encState = "running" /\ encReadOpen /\ ~encStalled
          /\ written' = Append(written, results[ri])
          /\ frames_processed' = frames_processed + 1
          /\ \E due \in ReportDue :
                /\ sinceReport' = IF due THEN 0 ELSE sinceReport
                /\ watchdog_event' = IF due THEN TRUE ELSE watchdog_event
          /\ ri' = ri + 1
          /\ pc' = "result"
          /\ UNCHANGED <<hist, faults>>
       \/ /\ encState = "exited" \/ ~encReadOpen
          /\ hist' = hist \cup {"broken_pipe"}
          /\ pc' = "poll_batch"
          /\ UNCHANGED <<written, frames_processed, sinceReport,
                         watchdog_event, ri, faults>>
       \/ /\ Fault
          /\ hist' = hist \cup {"write_error"}
          /\ pc' = "poll_batch"
          /\ frames_processed' = frames_processed + 1
          /\ UNCHANGED <<written, sinceReport, watchdog_event, ri>>
    /\ writeAttempts' = writeAttempts + 1
    /\ UNCHANGED <<depth, attempts, outcome, retval, inp, preferred_codec,
                   codec, no_gpu_env, scroll_speed, total_frames, batch_idx,
                   results, pbar_open, retry_attempted, return_code,
                   waitElapsed>>
    /\ UNCHANGED <<wd_pc, last_check_frames, sinceCheck, wdWaited, sinceTerm>>
    /\ UNCHANGED <<encVars, computed, gen, old, svc, prep, sel, io, fplan, wdg>>

\* Lines 687-706: write and flush one frame.  The write blocks while the
\* child does not read; it raises BrokenPipeError when the read end is gone;
\* any other exception also leaves the inner loop.
WriteFrame ==
    /\ pc = "write"
    /\ \/ /\ encState = "running" /\ encReadOpen /\ ~encStalled
          /\ written' = Append(written, results[ri])
          /\ frames_processed' = frames_processed + 1
          /\ \E due \in ReportDue :
                /\ sinceReport' = IF due THEN 0 ELSE sinceReport
                /\ watchdog_event' = IF due THEN TRUE ELSE watchdog_event
          /\ ri' = ri + 1
          /\ pc' = "result"
          /\ UNCHANGED <<hist, faults>>
       \/ /\ encState = "exited" \/ ~encReadOpen
          /\ hist' = hist \cup {"broken_pipe"}
          /\ pc' = "poll_batch"
          /\ UNCHANGED <<written, frames_processed, sinceReport,
                         watchdog_event, ri, faults>>
       \/ /\ Fault
          /\ hist' = hist \cup {"write_error"}
          /\ pc' = "poll_batch"
          /\ UNCHANGED <<written, frames_processed, sinceReport,
                         watchdog_event, ri>>
    /\ writeAttempts' = writeAttempts + 1
    /\ UNCHANGED <<depth, attempts, outcome, retval, inp, preferred_codec,
                   codec, no_gpu_env, scroll_speed, total_frames, batch_idx,
                   results, pbar_open, retry_attempted, return_code,
                   waitElapsed>>
    /\ UNCHANGED <<wd_pc, last_check_frames, sinceCheck, wdWaited, sinceTerm>>
    /\ UNCHANGED <<encVars, computed, gen, old, svc, prep, sel, io, fplan, wdg>>

\* PollBatch without the process.poll() test of line 712.
PollBatch_NoExitTest ==
    /\ pc = "poll_batch"
    /\ batch_idx' = batch_idx + 1
    /\ pc' = IF batch_idx + 1 < total_batches THEN "submit" ELSE "stream_end"
    /\ UNCHANGED <<depth, attempts, outcome, retval, inp, preferred_codec,
                   codec, no_gpu_env, scroll_speed, total_frames, results, ri,
                   frames_processed, pbar_open, retry_attempted, return_code,
                   sinceReport, waitElapsed>>
    /\ UNCHANGED <<wdVars, encVars, histVars, gen, old, svc, prep, sel, io, fplan, wdg>>

\* Lines 711-723: the loop ends when the child has exited, otherwise the next
\* batch follows.
PollBatch ==
    /\ pc = "poll_batch"
    /\ IF encState = "exited"
       THEN /\ pc' = "stream_end"
            /\ hist' = hist \cup {"exit_during_stream"}
            /\ UNCHANGED batch_idx
       ELSE /\ batch_idx' = batch_idx + 1
            /\ pc' = IF batch_idx + 1 < total_batches THEN "submit"
                     ELSE "stream_end"
            /\ UNCHANGED hist
    /\ UNCHANGED <<depth, attempts, outcome, retval, inp, preferred_codec,
                   codec, no_gpu_env, scroll_speed, total_frames, results, ri,
                   frames_processed, pbar_open, retry_attempted, return_code,
                   sinceReport, waitElapsed>>
    /\ UNCHANGED <<wdVars, encVars, written, computed, writeAttempts, faults,
                   gen, old, svc, prep, sel, io, fplan, wdg>>

\* Lines 725-755: watchdog_event.set(), then stdin is closed if the child is
\* still running, and the wait begins.
StreamEnd ==
    /\ pc = "stream_end"
    /\ watchdog_event' = TRUE
    /\ pc' = "close_stdin"
    /\ UNCHANGED <<depth, attempts, outcome, retval, inp, preferred_codec,
                   codec, no_gpu_env, scroll_speed, total_frames, batch_idx,
                   results, ri, frames_processed, pbar_open, retry_attempted,
                   return_code, sinceReport, waitElapsed>>
    /\ UNCHANGED <<wd_pc, last_check_frames, sinceCheck, wdWaited, sinceTerm>>
    /\ UNCHANGED <<encVars, histVars, gen, old, svc, prep, sel, io, fplan, wdg>>

\* CloseStdin without process.stdin.close().
CloseStdin_NoClose ==
    /\ pc = "close_stdin"
    /\ waitElapsed' = 0
    /\ pc' = "wait"
    /\ UNCHANGED <<depth, attempts, outcome, retval, inp, preferred_codec,
                   codec, no_gpu_env, scroll_speed, total_frames, batch_idx,
                   results, ri, frames_processed, pbar_open, retry_attempted,
                   return_code, sinceReport>>
    /\ UNCHANGED <<wdVars, encVars, histVars, gen, old, svc, prep, sel, io, fplan, wdg>>

\* Lines 725-735: process.stdin.close() if the child has not exited.
CloseStdin ==
    /\ pc = "close_stdin"
    /\ stdin_closed' = IF encState = "running" THEN TRUE ELSE stdin_closed
    /\ waitElapsed' = 0
    /\ pc' = "wait"
    /\ UNCHANGED <<depth, attempts, outcome, retval, inp, preferred_codec,
                   codec, no_gpu_env, scroll_speed, total_frames, batch_idx,
                   results, ri, frames_processed, pbar_open, retry_attempted,
                   return_code, sinceReport>>
    /\ UNCHANGED <<wdVars, encState, encCode, encReadOpen, encStalled, termSent, killSent, histVars, gen, old, svc, prep, sel, io, fplan, wdg>>

\* Lines 757-795: poll every 0.5 s; after encoding_timeout seconds call
\* terminate() and sleep 1 s.
WaitEncoder ==
    /\ pc = "wait"
    /\ IF encState = "exited"
       THEN /\ return_code' = encCode
            /\ pc' = "collect"
            /\ UNCHANGED <<termSent, hist>>
       ELSE /\ TRUE \in Exceeds(waitElapsed, encoding_timeout)
            /\ termSent' = TRUE
            /\ hist' = hist \cup {"post_stream_timeout"}
            /\ pc' = "wait_kill"
            /\ UNCHANGED return_code
    /\ UNCHANGED <<depth, attempts, outcome, retval, inp, preferred_codec,
                   codec, no_gpu_env, scroll_speed, total_frames, batch_idx,
                   results, ri, frames_processed, pbar_open, retry_attempted,
                   sinceReport, waitElapsed>>
    /\ UNCHANGED <<wdVars, encState, encCode, encReadOpen, encStalled, stdin_closed, killSent, written, computed,
                   writeAttempts, faults, gen, old, svc, prep, sel, io, fplan, wdg>>

\* Lines 776-792: kill() if the child survived terminate(); return_code = -9.
WaitKill ==
    /\ pc = "wait_kill"
    /\ killSent' = IF encState = "running" THEN TRUE ELSE killSent
    /\ return_code' = -9
    /\ pc' = "collect"
    /\ UNCHANGED <<depth, attempts, outcome, retval, inp, preferred_codec,
                   codec, no_gpu_env, scroll_speed, total_frames, batch_idx,
                   results, ri, frames_processed, pbar_open, retry_attempted,
                   sinceReport, waitElapsed>>
    /\ UNCHANGED <<wdVars, encState, encCode, encReadOpen, encStalled, stdin_closed, termSent, histVars, gen, old, svc, prep, sel, io, fplan, wdg>>

\* Lines 797-874 and 929: statistics, pbar.close(), last watchdog_event.set(),
\* joins with a 2 s limit, then the exit-status check: None for a non-zero
\* return_code, otherwise control leaves both try blocks and line 929
\* returns output_path.
Collect ==
    /\ pc = "collect"
    /\ pbar_open' = FALSE
    /\ watchdog_event' = TRUE
    /\ hist' = IF return_code # 0
               THEN hist \cup {"nonzero_return_code"} \cup
                    (IF codec = "h264_nvenc" /\ attempts = 1
                     THEN {"hw_first_attempt_failed"} ELSE {})
               ELSE hist
    /\ Return(IF return_code # 0 THEN "None" ELSE "output_path")
    /\ UNCHANGED <<attempts, inp, preferred_codec, codec, no_gpu_env,
                   scroll_speed, total_frames, batch_idx, results, ri,
                   frames_processed, retry_attempted, return_code, sinceReport,
                   waitElapsed>>
    /\ UNCHANGED <<wd_pc, last_check_frames, sinceCheck, wdWaited, sinceTerm>>
    /\ UNCHANGED <<encVars, written, computed, writeAttempts, faults, gen, old, svc, prep, sel, io, fplan, wdg>>

\* Lines 876-886: the inner handler calls terminate() on a running child and
\* sleeps 0.5 s.
InnerExcept ==
    /\ pc = "inner_except"
    /\ termSent' = IF encState = "running" THEN TRUE ELSE termSent
    /\ pc' = IF encState = "running" THEN "inner_kill" ELSE "inner_retry"
    /\ UNCHANGED <<depth, attempts, outcome, retval, inp, preferred_codec,
                   codec, no_gpu_env, scroll_speed, total_frames, batch_idx,
                   results, ri, frames_processed, pbar_open, retry_attempted,
                   return_code, sinceReport, waitElapsed>>
    /\ UNCHANGED <<wdVars, encState, encCode, encReadOpen, encStalled, stdin_closed, killSent, histVars, gen, old, svc, prep, sel, io, fplan, wdg>>

\* Lines 883-884: kill() if the child is still running.
InnerKill ==
    /\ pc = "inner_kill"
    /\ killSent' = IF encState = "running" THEN TRUE ELSE killSent
    /\ pc' = "inner_retry"
    /\ UNCHANGED <<depth, attempts, outcome, retval, inp, preferred_codec,
                   codec, no_gpu_env, scroll_speed, total_frames, batch_idx,
                   results, ri, frames_processed, pbar_open, retry_attempted,
                   return_code, sinceReport, waitElapsed>>
    /\ UNCHANGED <<wdVars, encState, encCode, encReadOpen, encStalled, stdin_closed, termSent, histVars, gen, old, svc, prep, sel, io, fplan, wdg>>

\* Lines 888-904 and 929: retry_attempted is a local that is first assigned
\* at line 904, so the test at line 899 is false when the handler is entered;
\* the handler then ends normally and line 929 returns output_path.
InnerRetry ==
    /\ pc = "inner_retry"
    /\ IF retry_attempted
       THEN Return("None") /\ UNCHANGED retry_attempted
       ELSE retry_attempted' = TRUE /\ Return("output_path")
    /\ UNCHANGED <<attempts, inp, preferred_codec, codec, no_gpu_env,
                   scroll_speed, total_frames, batch_idx, results, ri,
                   frames_processed, pbar_open, return_code, sinceReport,
                   waitElapsed>>
    /\ UNCHANGED <<wdVars, encVars, histVars, gen, old, svc, prep, sel, io, fplan, wdg>>

\* ---------------------------------------------------------- watchdog thread
mainVarsUnchanged ==
    UNCHANGED <<pipeVars, encState, encCode, encReadOpen, encStalled, stdin_closed, killSent, written, computed,
                writeAttempts, faults, gen, old, svc, prep, sel, io, fplan, wdg>>

\* Line 619: watchdog_event.wait(watchdog_timeout / 2) returns True as soon
\* as the event is set, False after 15 s.
WdWait ==
    /\ wd_pc = "wd_wait"
    /\ \/ /\ watchdog_event
          /\ wd_pc' = "wd_clear"
       \/ /\ ~watchdog_event
          /\ wdWaited >= TickSeconds
          /\ wd_pc' = "wd_stall"
    /\ wdWaited' = 0
    /\ UNCHANGED <<watchdog_event, last_check_frames, sinceCheck, sinceTerm,
                   termSent, hist>>
    /\ mainVarsUnchanged

\* Line 621.
WdClear ==
    /\ wd_pc = "wd_clear"
    /\ watchdog_event' = FALSE
    /\ wd_pc' = "wd_read"
    /\ UNCHANGED <<last_check_frames, sinceCheck, wdWaited, sinceTerm,
                   termSent, hist>>
    /\ mainVarsUnchanged

\* Lines 622-623.
WdRead ==
    /\ wd_pc = "wd_read"
    /\ last_check_frames' = frames_processed
    /\ sinceCheck' = 0
    /\ wd_pc' = "wd_fin"
    /\ UNCHANGED <<watchdog_event, wdWaited, sinceTerm, termSent, hist>>
    /\ mainVarsUnchanged

\* Lines 626-629.
WdFinished ==
    /\ wd_pc = "wd_fin"
    /\ wd_pc' = IF frames_processed >= total_frames THEN "wd_done" ELSE "wd_wait"
    /\ UNCHANGED <<watchdog_event, last_check_frames, sinceCheck, wdWaited,
                   sinceTerm, termSent, hist>>
    /\ mainVarsUnchanged

\* Lines 632-634: no progress since the last check and more than
\* watchdog_timeout seconds since last_check_time.
WdStall ==
    /\ wd_pc = "wd_stall"
    /\ IF frames_processed = last_check_frames
       THEN \E late \in Exceeds(sinceCheck, watchdog_timeout) :
               wd_pc' = IF late THEN "wd_recheck" ELSE "wd_wait"
       ELSE wd_pc' = "wd_reset"
    /\ UNCHANGED <<watchdog_event, last_check_frames, sinceCheck, wdWaited,
                   sinceTerm, termSent, hist>>
    /\ mainVarsUnchanged

\* Lines 650-653.
WdReset ==
    /\ wd_pc = "wd_reset"
    /\ last_check_frames' = frames_processed
    /\ sinceCheck' = 0
    /\ wd_pc' = "wd_wait"
    /\ UNCHANGED <<watchdog_event, wdWaited, sinceTerm, termSent, hist>>
    /\ mainVarsUnchanged

\* Lines 636-638.
WdRecheck ==
    /\ wd_pc = "wd_recheck"
    /\ wd_pc' = IF frames_processed >= total_frames THEN "wd_done" ELSE "wd_term"
    /\ UNCHANGED <<watchdog_event, last_check_frames, sinceCheck, wdWaited,
                   sinceTerm, termSent, hist>>
    /\ mainVarsUnchanged

\* Lines 640-649: process.terminate(), then the thread returns.
WdTerminate ==
    /\ wd_pc = "wd_term"
    /\ termSent' = IF encState = "running" THEN TRUE ELSE termSent
    /\ hist' = hist \cup {"watchdog_terminate"}
    /\ sinceTerm' = 0
    /\ wd_pc' = "wd_done"
    /\ UNCHANGED <<watchdog_event, last_check_frames, sinceCheck, wdWaited>>
    /\ mainVarsUnchanged

\* ----------------------------------------------------- encoder child process
encOnly ==
    UNCHANGED <<pipeVars, wdVars, written, computed, writeAttempts, gen, old, svc, prep, sel, io, fplan, wdg>>

\* The child stops reading its stdin for good.
EncStall ==
    /\ encState = "running" /\ ~encStalled /\ ~stdin_closed
    /\ Fault
    /\ encStalled' = TRUE
    /\ hist' = hist \cup {"encoder_stalled"}
    /\ UNCHANGED <<encState, encCode, encReadOpen, stdin_closed,
                   termSent, killSent>>
    /\ encOnly

\* The child gives up its input while it is still running.
EncCloseInput ==
    /\ encState = "running" /\ encReadOpen /\ ~stdin_closed
    /\ Fault
    /\ encReadOpen' = FALSE
    /\ UNCHANGED <<encState, encCode, encStalled, stdin_closed,
                   termSent, killSent, hist>>
    /\ encOnly

\* The child exits with a non-zero status on its own.
EncCrash ==
    /\ encState = "running"
    /\ Fault
    /\ encState' = "exited" /\ encCode' = 1 /\ encReadOpen' = FALSE
    /\ hist' = hist \cup {"encoder_crash"}
    /\ UNCHANGED <<encStalled, stdin_closed, termSent, killSent>>
    /\ encOnly

\* End of input seen: the child finishes the container and exits 0.
EncFinish ==
    /\ encState = "running" /\ stdin_closed /\ ~encStalled
    /\ encState' = "exited" /\ encCode' = 0 /\ encReadOpen' = FALSE
    /\ UNCHANGED <<encStalled, stdin_closed, termSent, killSent,
                   hist, faults>>
    /\ encOnly

\* SIGTERM ends the child if and when the child lets it: a child that
\* blocks or ignores the signal never takes this step.
EncDieTerm ==
    /\ encState = "running" /\ termSent
    /\ encState' = "exited" /\ encCode' = -15 /\ encReadOpen' = FALSE
    /\ UNCHANGED <<encStalled, stdin_closed, termSent, killSent,
                   hist, faults>>
    /\ encOnly

\* SIGKILL always ends the child.
EncDieKill ==
    /\ encState = "running" /\ killSent
    /\ encState' = "exited" /\ encCode' = -9 /\ encReadOpen' = FALSE
    /\ UNCHANGED <<encStalled, stdin_closed, termSent, killSent,
                   hist, faults>>
    /\ encOnly

\* ----------------------------------------------------------------------time
Cap(t, limit) == Min(t + TickSeconds, limit)

WdAlive == wd_pc \notin {"wd_none", "wd_done"}
InLoop == pc \in {"submit", "result", "write", "poll_batch"}

\* TickSeconds pass while the main thread is inside pool.map, inside a
\* blocking write or in the post-stream wait.  The watchdog's timed wait does
\* not oversleep, and the 0.5 s poll of the post-stream wait notices an
\* expired limit before another tick passes.
Tick ==
    /\ pc \in {"submit", "write", "wait"}
    /\ ~(pc = "wait" /\ waitElapsed > encoding_timeout)
    /\ ~(wd_pc = "wd_wait" /\ wdWaited >= TickSeconds)
    /\ sinceCheck' = IF WdAlive
                     THEN Cap(sinceCheck, watchdog_timeout + TickSeconds)
                     ELSE sinceCheck
    /\ wdWaited' = IF wd_pc = "wd_wait" THEN Cap(wdWaited, TickSeconds)
                   ELSE wdWaited
    /\ sinceTerm' = IF "watchdog_terminate" \in hist
                    THEN Cap(sinceTerm, TickSeconds) ELSE sinceTerm
    /\ sinceReport' = IF InLoop THEN Cap(sinceReport, TickSeconds)
                      ELSE sinceReport
    /\ waitElapsed' = IF pc = "wait"
                      THEN Cap(waitElapsed, encoding_timeout + TickSeconds)
                      ELSE waitElapsed
    /\ <<sinceCheck', wdWaited', sinceTerm', sinceReport', waitElapsed'>>
         # <<sinceCheck, wdWaited, sinceTerm, sinceReport, waitElapsed>>
    /\ UNCHANGED <<pc, depth, attempts, outcome, retval, inp, preferred_codec,
                   codec, no_gpu_env, scroll_speed, total_frames, batch_idx,
                   results, ri, frames_processed, pbar_open, retry_attempted,
                   return_code>>
    /\ UNCHANGED <<wd_pc, watchdog_event, last_check_frames>>
    /\ UNCHANGED <<encVars, histVars, gen, old, svc, prep, sel, io, fplan, wdg>>

\* ------------------------------------------------------------ specification
MainStep ==
    \/ Prepare \/ OuterExcept \/ Finally \/ Spawn \/ SubmitBatch
    \/ NextResult \/ WriteFrame \/ PollBatch \/ StreamEnd \/ CloseStdin
    \/ WaitEncoder \/ WaitKill \/ Collect \/ InnerExcept \/ InnerKill
    \/ InnerRetry

WatchdogStep ==
    \/ WdWait \/ WdClear \/ WdRead \/ WdFinished \/ WdStall \/ WdReset
    \/ WdRecheck \/ WdTerminate

EncoderStep ==
    \/ EncStall \/ EncCloseInput \/ EncCrash \/ EncFinish \/ EncDieTerm
    \/ EncDieKill

Next == MainStep \/ WatchdogStep \/ EncoderStep \/ Tick

Spec == Init /\ [][Next]_vars

\* The same program with the scheduling it can rely on: the main thread and
\* the watchdog thread keep running while they are not blocked, time passes,
\* a child that has seen the end of its input finishes, and SIGKILL cannot be
\* ignored.  Nothing makes a child react to SIGTERM.
ShortInit == Init /\ inp = ShortCall /\ preferred_codec = "libx264" /\ ~no_gpu_env

FairSpec ==
    /\ ShortInit /\ [][Next]_vars
    /\ WF_vars(MainStep) /\ WF_vars(WatchdogStep) /\ WF_vars(Tick)
    /\ WF_vars(EncFinish) /\ WF_vars(EncDieKill)

\* The call that needs two batches, on its own.
LongInit == Init /\ inp = LongCall

LongSpec == LongInit /\ [][Next]_vars

\* ------------------------------------------- frame generator of the service
\* Pipeline variables are not used by the frame generator and by
\* create_scrolling_video beyond the encoder process they share.
PipeOff ==
    /\ pc = "off" /\ depth = 0 /\ attempts = 0
    /\ inp = ShortCall /\ preferred_codec = "libx264" /\ no_gpu_env = FALSE
    /\ scroll_speed = <<1, 1>> /\ codec = "unset"
    /\ PipeIdle

\* position_accumulator and scroll_speed are Python floats (IEEE 754 binary64).
\* A value x with 0.5 <= x < 16, or 0, is the triple <<hi, mid, lo>> of limbs
\* of the integer x * 2^53 = hi * 2^48 + mid * 2^24 + lo.
Limb == 16777216
DblZero == <<0, 0, 0>>

\* Spacing of the binary64 values around a value with top limb hi, in units
\* of 2^-53: 1 below 1.0, 2 in [1, 2), 4 in [2, 4), 8 in [4, 8), 16 in [8, 16).
DblUlp(hi) ==
    IF hi < 32 THEN 1 ELSE IF hi < 64 THEN 2 ELSE IF hi < 128 THEN 4
    ELSE IF hi < 256 THEN 8 ELSE 16

DblNormal(hi, mid, lo) ==
    LET c0 == lo \div Limb
        m1 == mid + c0
        c1 == m1 \div Limb
    IN  <<hi + c1, m1 % Limb, lo % Limb>>

\* Round to nearest, ties to even: the result of every binary64 operation.
DblRound(x) ==
    LET u == DblUlp(x[1])
        q == x[3] \div u
        r == x[3] % u
        up == 2 * r > u \/ (2 * r = u /\ q % 2 = 1)
    IN  DblNormal(x[1], x[2], (q + (IF up THEN 1 ELSE 0)) * u)

\* a + b in binary64.
DblAdd(a, b) == DblRound(DblNormal(a[1] + b[1], a[2] + b[2], a[3] + b[3]))

\* int(x) for x >= 0.
DblFloor(x) == x[1] \div 32

\* The speeds that are explored, as the float the generator receives and as
\* the fraction it stands for: 0.5, 1.0, 2.0 and 3 * 0.2, which is the float
\* 0.6000000000000001 (0x3FE3333333333334).
SpeedHalf == [dbl |-> <<16, 0, 0>>, rat |-> <<1, 2>>]
SpeedOne == [dbl |-> <<32, 0, 0>>, rat |-> <<1, 1>>]
SpeedTwo == [dbl |-> <<64, 0, 0>>, rat |-> <<2, 1>>]
SpeedThreeFifths == [dbl |-> <<19, 3355443, 3355444>>, rat |-> <<3, 5>>]

GenSpeeds == {SpeedHalf, SpeedOne, SpeedTwo}
GenImgHeights == {3}
GenTargetHeights == {2}
GenTargetWidth == 2
\* Frames by which total_frames exceeds the scroll length (line 334-336
\* raise scroll_frames_needed to total_frames).
GenExtraFrames == {0, 1}

CeilDiv(n, r) == (n * r[2] + r[1] - 1) \div r[1]

\* Line 301: int(np.ceil(img_height / scaled_scroll_speed)); for the heights
\* and speeds explored the float quotient has the ceiling of the fraction.
scroll_frames_needed_of(img_height, speed) == CeilDiv(img_height, speed)

\* A frame is an array of target_height rows, target_width columns and 3 or
\* 4 channels of one byte; a row shows a row of the source image or the
\* background colour.
BgRow == -1

\* background_frame with three channels whatever the transparency.
background_frame_AlwaysRGB(target_height, target_width, transparent_bg) ==
    [rows |-> [r \in 1..target_height |-> BgRow],
     cols |-> target_width,
     channels |-> 3]

\* Lines 413-431: background_frame, of which end_frame is a copy.
background_frame(target_height, target_width, transparent_bg) ==
    [rows |-> [r \in 1..target_height |-> BgRow],
     cols |-> target_width,
     channels |-> IF transparent_bg THEN 4 ELSE 3]

end_frame(g) ==
    background_frame(g.target_height, g.target_width, g.transparent)

\* Lines 470-511 for the position current_position: the background frame,
\* or a copy of it whose first slice_height rows are the rows
\* slice_start..slice_end-1 of the source.
FrameAtPosition(position, g) ==
    LET slice_start == DblFloor(position)
        slice_end == slice_start + g.target_height
        slice_height == Min(slice_end, g.img_height) - slice_start
        canvas == end_frame(g)
    IN  IF DblFloor(position) >= g.img_height THEN end_frame(g)
        ELSE IF slice_start >= g.img_height \/ slice_start >= slice_end
             THEN end_frame(g)
        ELSE [canvas EXCEPT
                !.rows = [r \in 1..g.target_height |->
                            IF r <= slice_height THEN slice_start + r - 1
                            ELSE BgRow]]

\* Accumulate without the reset at frame 0.
Accumulate_NoReset(acc, frame_index, speed) == DblAdd(acc, speed.dbl)

\* Lines 457-462: the accumulator after this call.
Accumulate(acc, frame_index, speed) ==
    IF frame_index = 0 THEN DblZero ELSE DblAdd(acc, speed.dbl)

\* The array assignments of lines 499-509 need source rows as wide as the
\* frame; otherwise numpy raises.
WidthsFit(g) == g.img_width = g.target_width

GenConfig(v, h, t, c, x, tr, w) ==
    [phase |-> "on", speed |-> v, img_height |-> h, img_width |-> w,
     target_height |-> t, target_width |-> GenTargetWidth,
     transparent |-> tr, use_frame_cache |-> c,
     scroll_frames_needed |-> scroll_frames_needed_of(h, v.rat) + x,
     position_accumulator |-> DblZero,
     frame_cache |-> <<>>,
     calls |-> 0, last_index |-> 0, last_scrolled |-> FALSE,
     last_hit |-> FALSE, raised |-> FALSE,
     last_frame |-> background_frame(t, GenTargetWidth, tr)]

GenInit ==
    /\ PipeOff /\ OldIdle /\ SvcIdle /\ PrepIdle /\ SelIdle /\ IoIdle /\ PlanIdle /\ WdgIdle
    /\ \E v \in GenSpeeds, h \in GenImgHeights, t \in GenTargetHeights,
          c \in BOOLEAN, x \in GenExtraFrames, tr \in BOOLEAN :
          gen = GenConfig(v, h, t, c, x, tr, GenTargetWidth)

\* frame_cache is a dict: a function on the indices cached so far.
CachePut(cache, i, f) ==
    [k \in (DOMAIN cache) \cup {i} |-> IF k = i THEN f ELSE cache[k]]

\* Lines 436-521: the generator's state after frame_generator(frame_index);
\* last_frame is the frame returned, raised tells that the call raised.
GenResult(g, frame_index) ==
    LET hit == g.use_frame_cache /\ frame_index \in DOMAIN g.frame_cache
        ended == frame_index >= g.scroll_frames_needed
        acc == IF hit \/ ended THEN g.position_accumulator
               ELSE Accumulate(g.position_accumulator, frame_index, g.speed)
        built == FrameAtPosition(acc, g)
        fails == ~hit /\ ~ended /\ built # end_frame(g) /\ ~WidthsFit(g)
        frame == IF hit THEN g.frame_cache[frame_index]
                 ELSE IF ended THEN end_frame(g)
                 ELSE built
    IN  [g EXCEPT
           !.position_accumulator = acc,
           !.frame_cache = IF g.use_frame_cache /\ ~hit /\ ~fails
                           THEN CachePut(g.frame_cache, frame_index, frame)
                           ELSE g.frame_cache,
           !.calls = g.calls + 1,
           !.last_index = frame_index,
           !.last_scrolled = ~hit /\ ~ended,
           !.last_hit = hit,
           !.raised = fails,
           !.last_frame = IF fails THEN g.last_frame ELSE frame]

genOnly == UNCHANGED <<pipeVars, wdVars, encVars, histVars, old, svc, prep, sel, io, fplan, wdg>>

\* One call frame_generator(frame_index), in any order of the indices.
GenCall(frame_index) ==
    /\ gen.phase = "on"
    /\ gen.calls < MaxCalls
    /\ gen' = GenResult(gen, frame_index)
    /\ genOnly

GenNext == \E i \in 0..gen.scroll_frames_needed : GenCall(i)

GenSpec == GenInit /\ [][GenNext]_vars

\* The accumulator a sequential pass 0..i over a fresh generator leaves.
RECURSIVE SequentialAccumulator(_, _)
SequentialAccumulator(i, speed) ==
    IF i = 0 THEN Accumulate(DblZero, 0, speed)
    ELSE Accumulate(SequentialAccumulator(i - 1, speed), i, speed)

SequentialFrame(i) ==
    IF i >= gen.scroll_frames_needed THEN end_frame(gen)
    ELSE FrameAtPosition(SequentialAccumulator(i, gen.speed), gen)

\* ---------------------------------- sequential passes over the generator
\* The renderer asks for the frames 0..total_frames-1 in order; after the
\* reconciliation of lines 328-340 total_frames = scroll_frames_needed.  A
\* second pass over the same generator follows the first.
MaxPasses == 2
SeqSpeeds == {SpeedHalf, SpeedOne, SpeedThreeFifths}
SeqImgHeights == {3, 10}
SeqImgWidths == {2, 3}

SeqInit ==
    /\ PipeOff /\ OldIdle /\ SvcIdle /\ PrepIdle /\ SelIdle /\ IoIdle /\ PlanIdle /\ WdgIdle
    /\ \E v \in SeqSpeeds, h \in SeqImgHeights, c \in BOOLEAN,
          x \in GenExtraFrames, tr \in BOOLEAN, w \in SeqImgWidths :
          gen = [phase |-> "seq", pass |-> 1, next |-> 0, emitted |-> <<>>,
                 first_pass |-> <<>>, g |-> GenConfig(v, h, 2, c, x, tr, w)]

\* The next call of the pass.
SeqCall ==
    /\ gen.phase = "seq"
    /\ gen.pass <= MaxPasses
    /\ ~gen.g.raised
    /\ gen.next < gen.g.scroll_frames_needed
    /\ LET g2 == GenResult(gen.g, gen.next)
       IN gen' = [gen EXCEPT
                    !.g = g2,
                    !.next = gen.next + 1,
                    !.emitted = IF g2.raised THEN gen.emitted
                                ELSE Append(gen.emitted, g2.last_frame)]
    /\ genOnly

\* The pass is complete; the next one starts at frame 0.
SeqEndPass ==
    /\ gen.phase = "seq"
    /\ gen.pass <= MaxPasses
    /\ ~gen.g.raised
    /\ gen.next = gen.g.scroll_frames_needed
    /\ gen' = [gen EXCEPT
                 !.pass = gen.pass + 1,
                 !.next = 0,
                 !.emitted = IF gen.pass < MaxPasses THEN <<>> ELSE gen.emitted,
                 !.first_pass = IF gen.pass = 1 THEN gen.emitted
                                ELSE gen.first_pass]
    /\ genOnly

SeqNext == SeqCall \/ SeqEndPass

SeqSpec == SeqInit /\ [][SeqNext]_vars

\* --------------------------------------------------- create_scrolling_video
OldStaticSeconds == 3
OldFastLimit == 60

OldCalls ==
    {[img_height |-> 6, height |-> 4, fps |-> 1, speed |-> <<1, 1>>,
      transparency_required |-> FALSE, preferred_codec |-> "h264_nvenc",
      system |-> "Linux", no_gpu |-> FALSE, warmup_ok |-> TRUE],
     [img_height |-> 3, height |-> 4, fps |-> 1, speed |-> <<2, 1>>,
      transparency_required |-> TRUE, preferred_codec |-> "libx264",
      system |-> "Darwin", no_gpu |-> FALSE, warmup_ok |-> FALSE],
     [img_height |-> 59, height |-> 4, fps |-> 1, speed |-> <<1, 1>>,
      transparency_required |-> FALSE, preferred_codec |-> "libx264",
      system |-> "Linux", no_gpu |-> TRUE, warmup_ok |-> TRUE]}

\* Lines 968-980: int(3*fps + max(0, img_height - height)/scroll_speed + 3*fps).
old_total_frames(c) ==
    OldStaticSeconds * c.fps + IntDiv(Max(0, c.img_height - c.height), c.speed)
        + OldStaticSeconds * c.fps

\* Lines 1014-1056: a GPU encoder is used for an opaque video when one is
\* preferred and NO_GPU is not in the environment (macOS sets it first).
old_use_gpu(c) ==
    /\ ~c.transparency_required
    /\ c.preferred_codec \in {"h264_nvenc", "hevc_nvenc"}
    /\ ~(c.no_gpu \/ c.system = "Darwin")

\* Lines 1058-1086.
old_batch_size(c) ==
    IF ~c.warmup_ok THEN 60
    ELSE IF c.transparency_required THEN 120
    ELSE IF old_use_gpu(c) THEN 120 ELSE 240

old_num_batches(c) ==
    (old_total_frames(c) + old_batch_size(c) - 1) \div old_batch_size(c)

OldInit ==
    /\ PipeOff /\ GenIdle /\ SvcIdle /\ PrepIdle /\ SelIdle /\ IoIdle /\ PlanIdle /\ WdgIdle
    /\ \E c \in OldCalls :
          old = [phase |-> "on", pc |-> "popen", call |-> c,
                 total_frames |-> old_total_frames(c),
                 batch_idx |-> 0, pending |-> <<>>, fast_pos |-> 0,
                 frame_counter |-> 0, pbar_open |-> FALSE,
                 outcome |-> "running"]

oldOnly == UNCHANGED <<pipeVars, wdVars, gen, svc, prep, sel, io, fplan, wdg>>

OldBatchStart == old.batch_idx * old_batch_size(old.call)
OldBatchEnd == Min(OldBatchStart + old_batch_size(old.call), old.total_frames)

\* Lines 1165-1185: Popen, progress bar, pool.
OldPopen ==
    /\ old.pc = "popen"
    /\ old' = [old EXCEPT !.pc = "batch", !.pbar_open = TRUE]
    /\ encState' = "running" /\ encReadOpen' = TRUE
    /\ UNCHANGED <<encCode, encStalled, stdin_closed, termSent, killSent,
                   histVars>>
    /\ oldOnly

\* sorted(pool_results, key=lambda x: x[0]) for results with distinct indices.
SortedByIndex(seq) ==
    [k \in 1..Len(seq) |->
        seq[CHOOSE j \in 1..Len(seq) :
               Cardinality({i \in 1..Len(seq) : seq[i] < seq[j]}) = k - 1]]

\* Lines 1189-1231: the next batch; more than 60 frames go to pool.map and
\* are sorted by index, a smaller batch goes to fast_frame_processor.  After
\* the last batch stdin is closed (line 1254).
OldBatch ==
    /\ old.pc = "batch"
    /\ IF old.batch_idx >= old_num_batches(old.call)
       THEN /\ old' = [old EXCEPT !.pc = "wait"]
            /\ stdin_closed' = TRUE
            /\ waitElapsed' = 0
       ELSE /\ IF OldBatchEnd - OldBatchStart > OldFastLimit
               THEN \E order \in CompletionOrders(OldBatchEnd - OldBatchStart) :
                       old' = [old EXCEPT
                                 !.pc = "write",
                                 !.pending =
                                     SortedByIndex(BatchResults(
                                         OldBatchStart, OldBatchEnd, NoFrame,
                                         order))]
               ELSE old' = [old EXCEPT !.pc = "fast",
                                       !.fast_pos = OldBatchStart]
            /\ UNCHANGED <<stdin_closed, waitElapsed>>
    /\ UNCHANGED <<pc, depth, attempts, outcome, retval, inp, preferred_codec,
                   codec, no_gpu_env, scroll_speed, total_frames, batch_idx,
                   results, ri, frames_processed, pbar_open, retry_attempted,
                   return_code, sinceReport>>
    /\ UNCHANGED <<wdVars, encState, encCode, encReadOpen, encStalled,
                   termSent, killSent, histVars, gen, svc, prep, sel, io, fplan, wdg>>

\* fast_frame_processor(batch_frames, memory_pool, process) builds the frames
\* of the batch and writes each to process.stdin; it returns their number.
\* It raises when the pipe fails, and may raise for a reason of its own
\* between two frames.  When it raises (lines 1239-1245) every frame of the
\* batch is processed again for the write loop.
OldFast ==
    /\ old.pc = "fast"
    /\ IF old.fast_pos >= OldBatchEnd
       THEN /\ old' = [old EXCEPT
                         !.pc = "batch", !.batch_idx = old.batch_idx + 1,
                         !.frame_counter =
                             old.frame_counter + (OldBatchEnd - OldBatchStart)]
            /\ UNCHANGED <<written, hist, faults>>
       ELSE \/ /\ encState = "running" /\ encReadOpen /\ ~encStalled
               /\ written' = Append(written, old.fast_pos)
               /\ old' = [old EXCEPT !.fast_pos = old.fast_pos + 1]
               /\ UNCHANGED <<hist, faults>>
            \/ /\ encState = "exited" \/ ~encReadOpen
               /\ hist' = hist \cup {"fast_processor_exception"}
               /\ old' = [old EXCEPT
                            !.pc = "write",
                            !.pending = [k \in 1..(OldBatchEnd - OldBatchStart)
                                            |-> OldBatchStart + k - 1]]
               /\ UNCHANGED <<written, faults>>
            \/ /\ Fault
               /\ hist' = hist \cup {"fast_processor_exception"}
               /\ old' = [old EXCEPT
                            !.pc = "write",
                            !.pending = [k \in 1..(OldBatchEnd - OldBatchStart)
                                            |-> OldBatchStart + k - 1]]
               /\ UNCHANGED written
    /\ UNCHANGED <<encVars, computed, writeAttempts>>
    /\ oldOnly

\* Lines 1247-1251: the frames of the batch are written in list order; a
\* write blocks while the child does not read and raises when the read end
\* is gone.
OldWrite ==
    /\ old.pc = "write"
    /\ IF old.pending = <<>>
       THEN /\ old' = [old EXCEPT !.pc = "batch",
                                  !.batch_idx = old.batch_idx + 1]
            /\ UNCHANGED <<written, hist>>
       ELSE \/ /\ encState = "running" /\ encReadOpen /\ ~encStalled
               /\ written' = Append(written, Head(old.pending))
               /\ old' = [old EXCEPT !.pending = Tail(old.pending),
                                     !.frame_counter = old.frame_counter + 1]
               /\ UNCHANGED hist
            \/ /\ encState = "exited" \/ ~encReadOpen
               /\ hist' = hist \cup {"broken_pipe"}
               /\ old' = [old EXCEPT !.pc = "except"]
               /\ UNCHANGED written
    /\ UNCHANGED <<encVars, computed, writeAttempts, faults>>
    /\ oldOnly

\* Lines 1255-1271: process.wait() returns when the child has exited; a
\* non-zero status raises, otherwise output_path is returned.
OldWait ==
    /\ old.pc = "wait"
    /\ encState = "exited"
    /\ IF encCode # 0
       THEN old' = [old EXCEPT !.pc = "except"]
       ELSE old' = [old EXCEPT !.pc = "finally", !.outcome = "output_path"]
    /\ UNCHANGED <<encVars, histVars>>
    /\ oldOnly

\* Lines 1273-1280: terminate() and re-raise.
OldExcept ==
    /\ old.pc = "except"
    /\ termSent' = TRUE
    /\ old' = [old EXCEPT !.pc = "finally", !.outcome = "raised"]
    /\ UNCHANGED <<encState, encCode, encReadOpen, encStalled, stdin_closed,
                   killSent, histVars>>
    /\ oldOnly

\* Lines 1282-1289: finally closes the progress bar.
OldFinally ==
    /\ old.pc = "finally"
    /\ old' = [old EXCEPT !.pc = "done", !.pbar_open = FALSE]
    /\ UNCHANGED <<encVars, histVars>>
    /\ oldOnly

\* TickSeconds pass during process.wait().
OldTick ==
    /\ old.pc = "wait"
    /\ waitElapsed < encoding_timeout + TickSeconds
    /\ waitElapsed' = Cap(waitElapsed, encoding_timeout + TickSeconds)
    /\ UNCHANGED <<pc, depth, attempts, outcome, retval, inp, preferred_codec,
                   codec, no_gpu_env, scroll_speed, total_frames, batch_idx,
                   results, ri, frames_processed, pbar_open, retry_attempted,
                   return_code, sinceReport>>
    /\ UNCHANGED <<wdVars, encVars, histVars, gen, old, svc, prep, sel, io, fplan, wdg>>

OldNext ==
    \/ OldPopen \/ OldBatch \/ OldFast \/ OldWrite \/ OldWait \/ OldExcept
    \/ OldFinally \/ OldTick
    \/ EncStall \/ EncCloseInput \/ EncCrash \/ EncFinish \/ EncDieTerm

OldSpec == OldInit /\ [][OldNext]_vars

\* Both streaming entry points, each with its calls.
BothInit == ShortInit \/ OldInit

BothSpec == BothInit /\ [][Next \/ OldNext]_vars

\* ------------------------------------------------- choice of the encoder
\* The -c:v of the argument vector in the three entry points, for every
\* preferred codec, platform, environment and result of nvidia-smi.
selOnly == UNCHANGED <<pipeVars, wdVars, encVars, histVars, gen, old, svc, prep, io, fplan, wdg>>

SelEntries == {"optimized", "legacy", "ffmpeg"}
SelCodecs == {"h264_nvenc", "hevc_nvenc", "libx264", "prores_ks",
              "h264_videotoolbox"}
SelSystems == {"Linux", "Windows", "Darwin"}

SelInit ==
    /\ \E e \in SelEntries, c \in SelCodecs, y \in SelSystems,
          g \in BOOLEAN, n \in BOOLEAN, t \in BOOLEAN :
          sel = [phase |-> "on", pc |-> e, entry |-> e, preferred_codec |-> c,
                 system |-> y, no_gpu |-> g, nvidia |-> n,
                 transparency_required |-> t, codec |-> "unset"]
    /\ PipeOff /\ GenIdle /\ OldIdle /\ SvcIdle /\ PrepIdle /\ IoIdle /\ PlanIdle /\ WdgIdle

\* Lines 454-455 of create_scrolling_video_optimized.
SelOptimized ==
    /\ sel.phase = "on" /\ sel.pc = "optimized"
    /\ sel' = [sel EXCEPT
                 !.pc = "done",
                 !.codec = GetCodec(sel.preferred_codec,
                                    sel.transparency_required,
                                    IF sel.transparency_required THEN 4 ELSE 3,
                                    sel.no_gpu, sel.system)]
    /\ selOnly

\* Lines 990-1056 of create_scrolling_video: ProRes 4444 for a transparent
\* video; otherwise macOS sets NO_GPU, and a GPU encoder is taken as asked
\* for unless NO_GPU is in the environment.
SelLegacy ==
    /\ sel.phase = "on" /\ sel.pc = "legacy"
    /\ IF sel.transparency_required
       THEN sel' = [sel EXCEPT !.pc = "done", !.codec = "prores_ks"]
       ELSE LET no_gpu == sel.no_gpu \/ sel.system = "Darwin"
            IN  sel' = [sel EXCEPT
                          !.pc = "done",
                          !.no_gpu = no_gpu,
                          !.codec =
                              IF sel.preferred_codec \in {"h264_nvenc", "hevc_nvenc"}
                                 /\ ~no_gpu
                              THEN sel.preferred_codec
                              ELSE "libx264"]
    /\ selOnly

\* Lines 1416-1418 of create_scrolling_video_ffmpeg.
SelFfmpegParams ==
    /\ sel.phase = "on" /\ sel.pc = "ffmpeg"
    /\ sel' = [sel EXCEPT
                 !.pc = "ffmpeg_switch",
                 !.codec = GetCodec(sel.preferred_codec,
                                    sel.transparency_required,
                                    IF sel.transparency_required THEN 4 ELSE 3,
                                    sel.no_gpu, sel.system)]
    /\ selOnly

\* Lines 1478-1487: with an NVIDIA GPU detected, libx264 in the parameters
\* is replaced by h264_nvenc.
SelFfmpegSwitch ==
    /\ sel.phase = "on" /\ sel.pc = "ffmpeg_switch"
    /\ sel' = [sel EXCEPT
                 !.pc = "done",
                 !.codec = IF sel.nvidia /\ ~sel.transparency_required
                              /\ sel.codec = "libx264"
                           THEN "h264_nvenc"
                           ELSE sel.codec]
    /\ selOnly

SelNext == SelOptimized \/ SelLegacy \/ SelFfmpegParams \/ SelFfmpegSwitch

SelSpec == SelInit /\ [][SelNext]_vars

\* ------------------------------------------------- pipes of the encoder
\* Popen gives the child three pipes (stdin, stdout, stderr), each with a
\* bounded buffer.  The streamer writes frames to stdin and blocks while the
\* buffer is full; the encoder reads a frame, may have a diagnostic line to
\* write to stderr, and blocks on that write while the stderr buffer is full.
ioOnly == UNCHANGED <<pipeVars, wdVars, encVars, histVars, gen, old, svc, prep, sel, fplan, wdg>>

IoEntries == {"optimized", "legacy"}
IoCapacities == {1, 2}
IoFrameCounts == {3, 4}

IoInit ==
    /\ \E e \in IoEntries, c \in IoCapacities, n \in IoFrameCounts :
          io = [phase |-> "on", entry |-> e, capacity |-> c, pc |-> "popen",
                to_write |-> n, stdin_buf |-> 0, stderr_buf |-> 0,
                line_pending |-> FALSE, drains |-> FALSE, stdin_closed |-> FALSE,
                encoder |-> "none", lines_read |-> 0]
    /\ PipeOff /\ GenIdle /\ OldIdle /\ SvcIdle /\ PrepIdle /\ SelIdle /\ PlanIdle /\ WdgIdle

\* Lines 479-506: Popen, then the two daemon threads running read_pipe are
\* started.  Lines 1165-1172: Popen with the same three pipes; no thread
\* reads stdout or stderr.
IoPopen ==
    /\ io.phase = "on" /\ io.pc = "popen"
    /\ io' = [io EXCEPT !.pc = "write", !.encoder = "running",
                        !.drains = (io.entry = "optimized")]
    /\ ioOnly

\* process.stdin.write(frame bytes): returns once the pipe has taken them.
IoWrite ==
    /\ io.phase = "on" /\ io.pc = "write" /\ io.to_write > 0
    /\ io.stdin_buf < io.capacity
    /\ io' = [io EXCEPT !.stdin_buf = @ + 1, !.to_write = @ - 1]
    /\ ioOnly

\* process.stdin.close() after the last frame (lines 727-729, 1253).
IoClose ==
    /\ io.phase = "on" /\ io.pc = "write" /\ io.to_write = 0
    /\ io' = [io EXCEPT !.pc = "wait", !.stdin_closed = TRUE]
    /\ ioOnly

\* The encoder takes a frame from stdin; it may then have a line of
\* statistics or a warning to write to stderr.
IoEncoderRead ==
    /\ io.phase = "on" /\ io.encoder = "running" /\ ~io.line_pending
    /\ io.stdin_buf > 0
    /\ \E line \in BOOLEAN :
          io' = [io EXCEPT !.stdin_buf = @ - 1, !.line_pending = line]
    /\ ioOnly

\* The encoder writes the line to stderr once the pipe has room.
IoEncoderLog ==
    /\ io.phase = "on" /\ io.encoder = "running" /\ io.line_pending
    /\ io.stderr_buf < io.capacity
    /\ io' = [io EXCEPT !.stderr_buf = @ + 1, !.line_pending = FALSE]
    /\ ioOnly

\* The encoder reaches the end of its input and exits.
IoEncoderExit ==
    /\ io.phase = "on" /\ io.encoder = "running" /\ ~io.line_pending
    /\ io.stdin_closed /\ io.stdin_buf = 0
    /\ io' = [io EXCEPT !.encoder = "exited"]
    /\ ioOnly

\* read_pipe (lines 487-498): pipe.readline() in a loop takes a line out of
\* the pipe and looks at it.
read_pipe ==
    /\ io.phase = "on" /\ io.drains /\ io.stderr_buf > 0
    /\ io' = [io EXCEPT !.stderr_buf = @ - 1, !.lines_read = @ + 1]
    /\ ioOnly

\* The wait for the encoder (lines 755-795, 1254) ends when it has exited.
IoWait ==
    /\ io.phase = "on" /\ io.pc = "wait" /\ io.encoder = "exited"
    /\ io' = [io EXCEPT !.pc = "done"]
    /\ ioOnly

IoNext ==
    \/ IoPopen \/ IoWrite \/ IoClose \/ IoWait
    \/ IoEncoderRead \/ IoEncoderLog \/ IoEncoderExit
    \/ read_pipe

IoSpec == IoInit /\ [][IoNext]_vars

\* ------------------------------------------------------------ frame plans
\* The frame counts planned by create_scrolling_video_optimized and by
\* create_scrolling_video, and the start row create_scrolling_video gives to
\* each frame index.
planOnly == UNCHANGED <<pipeVars, wdVars, encVars, histVars, gen, old, svc, prep, sel, io, wdg>>

PlanEntries == {"optimized", "legacy"}
PlanImgHeights == {2, 4, 5, 7, 21}
PlanHeights == {4}
PlanTextHeights == {2}
PlanFpsValues == {1, 2}
PlanSpeeds == {<<1, 2>>, <<1, 1>>, <<3, 2>>, <<2, 1>>, <<3, 1>>}

PlanInit ==
    /\ \E e \in PlanEntries, ih \in PlanImgHeights, h \in PlanHeights,
          t \in PlanTextHeights, f \in PlanFpsValues, v \in PlanSpeeds :
          fplan = [phase |-> "on", pc |-> e, entry |-> e, img_height |-> ih,
                  height |-> h, text_actual_height |-> t, fps |-> f,
                  scroll_speed |-> v, head |-> 0, scroll |-> 0, tail |-> 0,
                  total_frames |-> 0, frame_idx |-> 0, rows |-> <<>>]
    /\ PipeOff /\ GenIdle /\ OldIdle /\ SvcIdle /\ PrepIdle /\ SelIdle /\ IoIdle /\ WdgIdle

\* Lines 367-388 of create_scrolling_video_optimized.
PlanOptimized ==
    /\ fplan.phase = "on" /\ fplan.pc = "optimized"
    /\ LET dist == scroll_distance_of(fplan.text_actual_height, fplan.img_height,
                                      fplan.height)
       IN fplan' = [fplan EXCEPT
                     !.head = padding_frames(fplan.fps),
                     !.scroll = planned_scroll_frames(dist, fplan.scroll_speed,
                                                      fplan.fps),
                     !.tail = padding_frames(fplan.fps),
                     !.total_frames = planned_total_frames(dist, fplan.scroll_speed,
                                                           fplan.fps),
                     !.scroll_speed = planned_speed(dist, fplan.scroll_speed,
                                                    fplan.fps),
                     !.pc = "done"]
    /\ planOnly

\* Lines 968-980 of create_scrolling_video: only the total is computed; the
\* head and the tail are start_static_time * fps and end_static_time * fps
\* frames in the tests of lines 1198-1203.
PlanLegacy ==
    /\ fplan.phase = "on" /\ fplan.pc = "legacy"
    /\ LET total == old_total_frames([img_height |-> fplan.img_height,
                                         height |-> fplan.height,
                                         fps |-> fplan.fps,
                                         speed |-> fplan.scroll_speed])
       IN fplan' = [fplan EXCEPT
                     !.head = OldStaticSeconds * fplan.fps,
                     !.tail = OldStaticSeconds * fplan.fps,
                     !.scroll = total - 2 * OldStaticSeconds * fplan.fps,
                     !.total_frames = total,
                     !.pc = "frames"]
    /\ planOnly

\* img_start_y_of without the max(0, ...) of line 1203.
img_start_y_NoClamp(frame_idx, total, img_height, height, fps, speed) ==
    IF frame_idx < OldStaticSeconds * fps THEN 0
    ELSE IF frame_idx >= total - OldStaticSeconds * fps
         THEN img_height - height
    ELSE Min(img_height - height,
             ((frame_idx - OldStaticSeconds * fps) * speed[1]) \div speed[2])

\* img_start_y_of with the tail frames treated as scroll frames.
img_start_y_NoTail(frame_idx, total, img_height, height, fps, speed) ==
    IF frame_idx < OldStaticSeconds * fps THEN 0
    ELSE Min(img_height - height,
             ((frame_idx - OldStaticSeconds * fps) * speed[1]) \div speed[2])

\* Lines 1198-1211: the start row of frame frame_idx.
img_start_y_of(frame_idx, total, img_height, height, fps, speed) ==
    IF frame_idx < OldStaticSeconds * fps THEN 0
    ELSE IF frame_idx >= total - OldStaticSeconds * fps
         THEN Max(0, img_height - height)
    ELSE Min(img_height - height,
             ((frame_idx - OldStaticSeconds * fps) * speed[1]) \div speed[2])

\* Lines 1196-1223: the parameters of the next frame of the batch loop.
PlanLegacyFrame ==
    /\ fplan.phase = "on" /\ fplan.pc = "frames"
    /\ IF fplan.frame_idx < fplan.total_frames
       THEN fplan' = [fplan EXCEPT
                       !.rows = Append(@, img_start_y_of(
                                    fplan.frame_idx, fplan.total_frames,
                                    fplan.img_height, fplan.height, fplan.fps,
                                    fplan.scroll_speed)),
                       !.frame_idx = @ + 1]
       ELSE fplan' = [fplan EXCEPT !.pc = "done"]
    /\ planOnly

PlanNext == PlanOptimized \/ PlanLegacy \/ PlanLegacyFrame

PlanSpec == PlanInit /\ [][PlanNext]_vars

\* ------------------------------------------------------- create_roll_video
svcOnly == UNCHANGED <<pipeVars, wdVars, encVars, histVars, gen, old, prep, sel, io, fplan, wdg>>

RatMax(a, b) == IF RatLess(a, b) THEN b ELSE a
Half == <<1, 2>>

\* Requests that are explored: scroll_speed is an integer number of pixels,
\* scale_factor a rational; the rendered text image is img_height rows high.
SvcScrollSpeeds == {1, 3, 4, 5, 6}
SvcScaleFactors == {<<1, 4>>, <<3, 8>>, <<1, 2>>, <<1, 1>>}
SvcImgHeights == {3, 5}
SvcHeight == 2
SvcFps == 1

\* The frame totals the renderer can be configured for: pure scroll, or
\* head and tail seconds of static padding around the scroll.
SvcPlans ==
    {[convention |-> "pure", head_static_s |-> 0, tail_static_s |-> 0],
     [convention |-> "padded", head_static_s |-> 0, tail_static_s |-> 0],
     [convention |-> "padded", head_static_s |-> 2, tail_static_s |-> 2]}

\* scroll_speed * scale_factor, the speed the request asks for.
requested_speed(scroll_speed_arg, scale_factor) ==
    <<scroll_speed_arg * scale_factor[1], scale_factor[2]>>

\* Lines 228-236: below 5 px/frame the product is kept as a fraction and
\* raised to 0.5; otherwise it is truncated to an integer and raised to 1.
scaled_scroll_speed_of(scroll_speed_arg, scale_factor) ==
    IF scroll_speed_arg < 5
    THEN RatMax(Half, requested_speed(scroll_speed_arg, scale_factor))
    ELSE <<Max(1, (scroll_speed_arg * scale_factor[1]) \div scale_factor[2]), 1>>

\* VideoRenderer.calculate_total_frames of the renderer package.
calculate_total_frames(plan, img_height, height, fps, speed) ==
    IF plan.convention = "pure"
    THEN CeilDiv(img_height, speed)
    ELSE plan.head_static_s * fps
         + CeilDiv(Max(0, img_height - height), speed)
         + plan.tail_static_s * fps

SvcInit ==
    /\ PipeOff /\ GenIdle /\ OldIdle /\ PrepIdle /\ SelIdle /\ IoIdle /\ PlanIdle /\ WdgIdle
    /\ \E s \in SvcScrollSpeeds, f \in SvcScaleFactors, h \in SvcImgHeights,
          p \in SvcPlans :
          svc = [phase |-> "on", pc |-> "scale", scroll_speed |-> s,
                 scale_factor |-> f, img_height |-> h, plan |-> p,
                 scaled_scroll_speed |-> <<0, 1>>,
                 scroll_frames_needed |-> 0, total_frames |-> 0,
                 rendered_frames |-> -1, outcome |-> "running"]

\* Lines 222-236.
SvcScale ==
    /\ svc.phase = "on" /\ svc.pc = "scale"
    /\ svc' = [svc EXCEPT
                 !.scaled_scroll_speed =
                     scaled_scroll_speed_of(svc.scroll_speed, svc.scale_factor),
                 !.pc = "text"]
    /\ svcOnly

\* Lines 254-287: TextRenderer and render_text_to_image; either may raise,
\* and the exception is re-raised.
SvcRenderText ==
    /\ svc.phase = "on" /\ svc.pc = "text"
    /\ \/ svc' = [svc EXCEPT !.pc = "frames"]
       \/ svc' = [svc EXCEPT !.pc = "done", !.outcome = "raised"]
    /\ svcOnly

\* Lines 293-325: scroll_frames_needed from the image height, total_frames
\* from the renderer.
SvcCountFrames ==
    /\ svc.phase = "on" /\ svc.pc = "frames"
    /\ svc' = [svc EXCEPT
                 !.scroll_frames_needed =
                     scroll_frames_needed_of(svc.img_height,
                                             svc.scaled_scroll_speed),
                 !.total_frames =
                     calculate_total_frames(svc.plan, svc.img_height, SvcHeight,
                                            SvcFps, svc.scaled_scroll_speed),
                 !.pc = "reconcile"]
    /\ svcOnly

\* SvcReconcile with the smaller of the two counts kept as it is.
SvcReconcile_KeepTotal ==
    /\ svc.phase = "on" /\ svc.pc = "reconcile"
    /\ svc' = [svc EXCEPT
                 !.scroll_frames_needed = svc.total_frames,
                 !.pc = "render"]
    /\ svcOnly

\* Lines 328-340: the smaller of the two counts is raised to the larger.
SvcReconcile ==
    /\ svc.phase = "on" /\ svc.pc = "reconcile"
    /\ svc' = [svc EXCEPT
                 !.scroll_frames_needed =
                     IF svc.total_frames > svc.scroll_frames_needed
                     THEN svc.total_frames ELSE svc.scroll_frames_needed,
                 !.total_frames =
                     IF svc.total_frames < svc.scroll_frames_needed
                     THEN svc.scroll_frames_needed ELSE svc.total_frames,
                 !.pc = "render"]
    /\ svcOnly

\* Lines 343-364: the frame generator is created and render_frames is asked
\* for total_frames frames; an exception of the renderer is re-raised.
SvcRender ==
    /\ svc.phase = "on" /\ svc.pc = "render"
    /\ \E ok \in BOOLEAN :
          svc' = [svc EXCEPT
                    !.rendered_frames = svc.total_frames,
                    !.pc = "done",
                    !.outcome = IF ok THEN "output_path" ELSE "raised"]
    /\ svcOnly

SvcNext ==
    \/ SvcScale \/ SvcRenderText \/ SvcCountFrames \/ SvcReconcile
    \/ SvcRender

SvcSpec == SvcInit /\ [][SvcNext]_vars

\* ------------- create_scrolling_video_optimized, from the call to Popen
prepOnly == UNCHANGED <<pipeVars, wdVars, encVars, histVars, gen, old, svc, sel, io, fplan, wdg>>

\* Calls that are explored: RGB and RGBA images, each parameter valid or not.
PrepChannels == {3, 4}
PrepWidths == {0, 2}
PrepHeights == {0, 4}
PrepFpsValues == {0, 1}
PrepSpeeds == {<<0, 1>>, <<1, 1>>}
\* audio_path: None, a path that does not exist, a file.
PrepAudioPaths == {"none", "missing", "file"}
PrepImgHeight == 6
PrepTextHeight == 2

PrepInit ==
    /\ PipeOff /\ GenIdle /\ OldIdle /\ SvcIdle /\ SelIdle /\ IoIdle /\ PlanIdle /\ WdgIdle
    /\ \E ch \in PrepChannels, t \in BOOLEAN, w \in PrepWidths,
          h \in PrepHeights, f \in PrepFpsValues, v \in PrepSpeeds,
          a \in PrepAudioPaths, x \in BOOLEAN :
          prep = [phase |-> "on", pc |-> "convert", depth |-> 1,
                  image_channels |-> ch, transparency_required |-> t,
                  width |-> w, height |-> h, fps |-> f, scroll_speed |-> v,
                  audio_path |-> a, output_exists |-> x,
                  preferred_codec |-> "h264_nvenc", no_gpu_env |-> FALSE,
                  channels |-> 0, total_frames |-> 0,
                  pix_fmt |-> "unset", codec |-> "unset",
                  audio_input |-> FALSE, removed_old |-> FALSE,
                  spawned |-> FALSE, outcome |-> "running"]

\* Lines 303-340: an RGBA image is flattened onto the background colour
\* unless transparency is required; an RGB image is kept as it is.
converted_channels(image_channels, transparency_required) ==
    IF image_channels = 4 /\ ~transparency_required THEN 3 ELSE image_channels

PrepConvert ==
    /\ prep.phase = "on" /\ prep.pc = "convert"
    /\ prep' = [prep EXCEPT
                  !.channels = converted_channels(prep.image_channels,
                                                  prep.transparency_required),
                  !.pc = "plan"]
    /\ prepOnly

\* Lines 342-398: planning; duration = total_frames / self.fps raises
\* ZeroDivisionError for fps = 0.
PrepPlan ==
    /\ prep.phase = "on" /\ prep.pc = "plan"
    /\ LET dist == scroll_distance_of(PrepTextHeight, PrepImgHeight, prep.height)
       IN prep' = [prep EXCEPT
                     !.scroll_speed = planned_speed(dist, prep.scroll_speed, prep.fps),
                     !.total_frames =
                         planned_total_frames(dist, prep.scroll_speed, prep.fps),
                     !.pc = IF prep.fps = 0 THEN "outer_except" ELSE "remove_old"]
    /\ prepOnly

\* Lines 400-409: the output directory is created and an existing output
\* file is removed.
PrepRemoveOld ==
    /\ prep.phase = "on" /\ prep.pc = "remove_old"
    /\ prep' = [prep EXCEPT
                  !.removed_old = prep.removed_old \/ prep.output_exists,
                  !.output_exists = FALSE,
                  !.pc = "codec"]
    /\ prepOnly

\* Lines 410-455: shared memory (a failure is logged, not raised), then
\* _get_codec_parameters(preferred_codec, transparency_required,
\* 4 if transparency_required else 3).
PrepCodec ==
    /\ prep.phase = "on" /\ prep.pc = "codec"
    /\ LET declared == IF prep.transparency_required THEN 4 ELSE 3
       IN prep' = [prep EXCEPT
                     !.pix_fmt = GetPixFmt(prep.transparency_required, declared),
                     !.codec = GetCodec(prep.preferred_codec,
                                        prep.transparency_required, declared,
                                        prep.no_gpu_env, "Linux"),
                     !.pc = "command"]
    /\ prepOnly

\* _get_ffmpeg_command: the audio input is part of the argument vector when
\* audio_path is given and os.path.exists(audio_path).
PrepCommand ==
    /\ prep.phase = "on" /\ prep.pc = "command"
    /\ prep' = [prep EXCEPT !.audio_input = (prep.audio_path = "file"),
                            !.pc = "popen"]
    /\ prepOnly

\* Lines 466-487: pool and subprocess.Popen(ffmpeg_cmd, ...).
PrepPopen ==
    /\ prep.phase = "on" /\ prep.pc = "popen"
    /\ prep' = [prep EXCEPT !.spawned = TRUE, !.pc = "streaming"]
    /\ prepOnly

\* Lines 906-927: the outer handler calls the function again with libx264
\* and NO_GPU set; at the recursion limit the nested call raises and None is
\* returned through every level.
PrepOuterExcept ==
    /\ prep.phase = "on" /\ prep.pc = "outer_except"
    /\ IF prep.depth < MaxDepth
       THEN prep' = [prep EXCEPT !.depth = prep.depth + 1,
                                 !.preferred_codec = "libx264",
                                 !.no_gpu_env = TRUE,
                                 !.pc = "convert"]
       ELSE prep' = [prep EXCEPT !.no_gpu_env = FALSE,
                                 !.pc = "done", !.outcome = "None"]
    /\ prepOnly

PrepNext ==
    \/ PrepConvert \/ PrepPlan \/ PrepRemoveOld \/ PrepCodec \/ PrepCommand
    \/ PrepPopen \/ PrepOuterExcept

PrepSpec == PrepInit /\ [][PrepNext]_vars

\* ------------------------------------------------------------------ claims
IsPrefixOfIndices(seq) == \A k \in 1..Len(seq) : seq[k] = k - 1

\* C1: the frame indices written to the encoder's stdin are 0,1,...,k-1 in
\* that order, at every point of every run.
C1_FramesInIndexOrder == IsPrefixOfIndices(written)

SkippingEvents ==
    {"spawn_failure", "thread_start_failure", "worker_exception",
     "none_result", "write_error", "broken_pipe", "exit_during_stream"}

\* C2: output_path is returned only if the encoder exited with status 0 and
\* every frame was written; never after an exception in the pool/encoder
\* section or after frames or batches were skipped.
C2_SuccessOnlyWhenComplete ==
    (pc = "done" /\ outcome = "output_path") =>
        /\ encState = "exited" /\ encCode = 0
        /\ Len(written) = total_frames
        /\ hist \cap SkippingEvents = {}

RuntimeFailures ==
    {"spawn_failure", "thread_start_failure", "worker_exception",
     "nonzero_return_code", "watchdog_terminate", "post_stream_timeout"}

\* C4: every runtime failure of the pipeline reaches the caller as a raised
\* error, never as a normal return of None or of output_path.
C4_FailuresAreRaised ==
    (pc = "done" /\ hist \cap RuntimeFailures # {}) => outcome = "raised"

\* C5: a non-zero encoder exit of a first attempt that used h264_nvenc is
\* followed by exactly one more attempt, with libx264; one call makes at
\* most two attempts.
C5_SoftwareFallbackOnce ==
    /\ attempts <= 2
    /\ (pc = "done" /\ "hw_first_attempt_failed" \in hist) => attempts = 2

\* C6: after the watchdog has called terminate(), a child that is still
\* alive 1 s later gets kill().
C6_WatchdogEscalatesToKill ==
    ("watchdog_terminate" \in hist /\ encState = "running"
        /\ sinceTerm >= TickSeconds) => killSent

\* C7: with an encoder that never reads its stdin the call ends, as a
\* failure, and the child has exited.
C7_StalledEncoderCallEnds ==
    encStalled ~> (pc = "done" /\ outcome # "output_path" /\ encState = "exited")

\* C9: after a BrokenPipeError on a write, no further frame is computed and
\* no further write is attempted in that run.
C9_NothingAfterBrokenPipe ==
    [][("broken_pipe" \in hist) =>
          (computed' = computed /\ writeAttempts' = writeAttempts)]_vars

\* C10: after a worker raised in a batch no later batch is submitted or
\* written, the encoder is terminated and the error reaches the caller.
C10_WorkerErrorAborts ==
    /\ [][("worker_exception" \in hist) =>
            (computed' = computed /\ written' = written)]_vars
    /\ []((pc = "done" /\ "worker_exception" \in hist) =>
            (outcome \notin {"output_path"} /\ (termSent \/ killSent)))

\* C3: the position (and frame) the frame generator uses for index i is the
\* one a sequential pass 0..i yields, whatever calls came before.
C3_PositionDependsOnIndexOnly ==
    (gen.phase = "on" /\ gen.calls > 0) =>
        /\ gen.last_frame = SequentialFrame(gen.last_index)
        /\ gen.last_scrolled =>
              gen.position_accumulator
                  = SequentialAccumulator(gen.last_index, gen.speed)

\* C8: a post-stream wait that has lasted longer than 120 s has led to
\* terminate() (and then to a failed render), in both streaming entry points.
C8_PostStreamWaitIsBounded ==
    /\ (old.phase = "on" /\ old.pc = "wait" /\ waitElapsed > encoding_timeout)
          => termSent
    /\ (pc = "done" /\ "post_stream_timeout" \in hist)
          => (termSent /\ outcome # "output_path")

FailedExit == encState = "exited" /\ encCode # 0

\* C11: once the encoder has exited with a non-zero status during streaming,
\* the main thread is never blocked inside the batch loop (no hang), at most
\* one more batch is computed, and that batch is not larger than
\* pool_size * batch_size + 2 frames.
C11_LoopStopsAfterEncoderExit ==
    /\ [][FailedExit =>
            /\ \A n \in CpuCounts :
                  computed' - computed <= pool_size(n) * chunk_size + 2
            /\ ("computed_after_exit" \in hist => computed' = computed)]_vars
    /\ []((FailedExit /\ InLoop) => ENABLED MainStep)

C11_Witness ==
    /\ pc = "stream_end" /\ FailedExit
    /\ {"exit_during_stream", "computed_after_exit"} \subseteq hist
    /\ batch_idx + 1 < total_batches

SvcRendering == svc.phase = "on" /\ svc.rendered_frames >= 0

C13_SlowRequestRejected ==
    (svc.phase = "on"
        /\ RatLess(requested_speed(svc.scroll_speed, svc.scale_factor), Half))
    => (svc.pc \notin {"frames", "reconcile", "render"}
          /\ svc.outcome # "output_path" /\ svc.rendered_frames < 0)

PrepInvalid ==
    \/ prep.width <= 0 \/ prep.height <= 0 \/ prep.fps <= 0
    \/ prep.scroll_speed[1] <= 0 \/ prep.audio_path = "missing"

\* C14: a call with an invalid parameter ends in a raised configuration
\* error; it neither removes an existing output file nor spawns the encoder.
C14_InvalidParametersRejected ==
    (prep.phase = "on" /\ PrepInvalid) =>
        /\ ~prep.spawned /\ ~prep.removed_old
        /\ prep.pc \notin {"remove_old", "codec", "command", "popen"}
        /\ prep.pc = "done" => prep.outcome = "raised"

BytesPerPixel(pix_fmt) == IF pix_fmt = "rgba" THEN 4 ELSE 3

\* C20: for every valid call, the pixel format declared to the encoder has as
\* many channels as the image buffer that is shared with the workers.
C20_PixFmtMatchesBuffer ==
    (prep.phase = "on" /\ ~PrepInvalid /\ prep.pix_fmt # "unset") =>
        BytesPerPixel(prep.pix_fmt) = prep.channels

AllBackground(f) == \A r \in DOMAIN f.rows : f.rows[r] = BgRow

\* C15: the frame returned for index i shows, with y0 = floor(p_i) and
\* h = min(y0 + H_video, H_img) - y0, the source rows y0..y0+h-1 in its rows
\* 0..h-1 and the background below; it is all background when p_i >= H_img
\* or i is at or past the scroll end.
C15_WindowClippedAndFilled ==
    (gen.phase = "on" /\ gen.calls > 0) =>
        LET i == gen.last_index
            y0 == DblFloor(SequentialAccumulator(i, gen.speed))
            h == Min(y0 + gen.target_height, gen.img_height) - y0
            f == gen.last_frame
        IN  IF i >= gen.scroll_frames_needed \/ y0 >= gen.img_height
            THEN AllBackground(f)
            ELSE \A r \in 1..gen.target_height :
                    f.rows[r] = IF r <= h THEN y0 + r - 1 ELSE BgRow

\* C16: in a sequential pass the window of frame i starts at source row
\* floor(i * v).
C16_StartRowIsFloorOfIndexTimesSpeed ==
    (gen.phase = "seq" /\ gen.g.calls > 0 /\ ~gen.g.raised) =>
        LET i == gen.g.last_index
            row == (i * gen.g.speed.rat[1]) \div gen.g.speed.rat[2]
        IN  (i < gen.g.scroll_frames_needed /\ row < gen.g.img_height) =>
                gen.g.last_frame.rows[1] = row

\* C17: the frames of a later sequential pass are the frames of the first
\* pass, one by one.
C17_PassesAreIdentical ==
    (gen.phase = "seq" /\ gen.pass >= 2) =>
        /\ Len(gen.emitted) <= Len(gen.first_pass)
        /\ \A k \in 1..Len(gen.emitted) : gen.emitted[k] = gen.first_pass[k]
        /\ gen.pass > MaxPasses => gen.emitted = gen.first_pass

C17_Witness ==
    /\ gen.phase = "seq" /\ gen.pass > MaxPasses
    /\ ~gen.g.use_frame_cache /\ gen.g.speed = SpeedThreeFifths
    /\ Len(gen.first_pass) = gen.g.scroll_frames_needed
    /\ gen.first_pass[1] # gen.first_pass[Len(gen.first_pass)]

\* C19: every frame returned has H_video rows, W_video columns and 4
\* channels for transparent output, 3 otherwise.
C19_FrameShape ==
    gen.phase = "seq" =>
        \A k \in 1..Len(gen.emitted) :
            /\ Len(gen.emitted[k].rows) = gen.g.target_height
            /\ gen.emitted[k].cols = gen.g.target_width
            /\ gen.emitted[k].channels = IF gen.g.transparent THEN 4 ELSE 3

C19_Witness ==
    /\ gen.phase = "seq" /\ gen.g.transparent
    /\ \E a, b, c \in 1..Len(gen.emitted) :
          /\ AllBackground(gen.emitted[a])
          /\ gen.emitted[b].rows[1] # BgRow /\ gen.emitted[b].rows[2] = BgRow
          /\ gen.emitted[c].rows[2] # BgRow

StrictlyIncreasing(seq) == \A k \in 1..(Len(seq) - 1) : seq[k] < seq[k + 1]

\* C18: whatever the order in which the workers finish, the frames of a
\* batch reach the write loop in the order of their indices (each result at
\* the position of its task), and the frames written to the encoder are in
\* increasing index order.
C18_WriteOrderIsSerialOrder ==
    /\ "fast_processor_exception" \notin hist => StrictlyIncreasing(written)
    /\ pc \in {"result", "write", "poll_batch"} =>
          \A k \in 1..Len(results) :
              results[k] \in {NoFrame, batch_idx * chunk_size + k - 1}
    /\ (old.phase = "on" /\ old.pc = "write") =>
          \A k \in 1..Len(old.pending) :
              old.pending[k] = OldBatchEnd - Len(old.pending) + k - 1

C18_Witness ==
    pc = "done" /\ Len(written) = total_frames /\ total_frames > 2

\* C21: with NO_GPU in the environment, the argument vector of every entry
\* point names a software encoder, never h264_nvenc or hevc_nvenc.
C21_NoGpuForcesSoftwareEncoder ==
    (sel.phase = "on" /\ sel.pc = "done" /\ sel.no_gpu) =>
        sel.codec \notin {"h264_nvenc", "hevc_nvenc"}

\* C22: when a render call has returned, on success or on failure, the
\* progress bar it created is closed.
C22_ProgressBarClosedOnEveryPath ==
    /\ pc = "done" => ~pbar_open
    /\ (old.phase = "on" /\ old.pc = "done") => ~old.pbar_open

EncoderBlockedOnDiagnostics ==
    io.encoder = "running" /\ io.line_pending /\ io.stderr_buf = io.capacity

StreamerBlockedOnStdin ==
    io.pc = "write" /\ io.to_write > 0 /\ io.stdin_buf = io.capacity

\* C23: while frames are being written the encoder's diagnostic pipes are
\* being drained, so the encoder is never stuck on a full diagnostic pipe
\* that nobody reads while the streamer is stuck on the encoder's stdin.
C23_DiagnosticsDrainedWhileStreaming ==
    (io.phase = "on" /\ EncoderBlockedOnDiagnostics /\ StreamerBlockedOnStdin)
        => io.drains

\* C24: once total_frames and scroll_frames_needed have been computed in
\* create_roll_video, neither is overwritten with the value of the other
\* before render_frames is called.
C24_FrameCountsNotOverwritten ==
    [][(svc.phase = "on" /\ svc.pc = "reconcile") =>
          /\ svc'.total_frames = svc.total_frames
          /\ svc'.scroll_frames_needed = svc.scroll_frames_needed]_vars

\* C25: a render call does not change the renderer's configured scroll
\* speed, so the speed is the same after the call as before it.
C25_CallLeavesScrollSpeedUnchanged ==
    [][(prep.phase = "on" /\ ~PrepInvalid) =>
          prep'.scroll_speed = prep.scroll_speed]_vars

\* C26: in the padded plans N_head = ceil(head_static_s * fps),
\* N_scroll = ceil((H_img - H_video) / v), N_tail = ceil(tail_static_s * fps)
\* and N_total = N_head + N_scroll + N_tail.
C26_PaddedPlanCounts ==
    (fplan.phase = "on" /\ fplan.pc \in {"frames", "done"}) =>
        LET static_s == IF fplan.entry = "legacy"
                        THEN <<OldStaticSeconds, 1>>
                        ELSE <<PaddingSecondsTimes10, 10>>
            N_head == CeilDiv(static_s[1] * fplan.fps, <<static_s[2], 1>>)
            N_tail == N_head
            N_scroll == CeilDiv(fplan.img_height - fplan.height, fplan.scroll_speed)
        IN  /\ fplan.head = N_head
            /\ fplan.tail = N_tail
            /\ fplan.scroll = N_scroll
            /\ fplan.total_frames = N_head + N_scroll + N_tail

\* C27: in create_scrolling_video a head frame starts at row 0, a scroll
\* frame at row floor((i - N_head) * v) and a tail frame at row
\* H_img - H_video (at least 0); the three ranges of indices partition
\* [0, N_total).
C27_LegacyStartRows ==
    (fplan.phase = "on" /\ fplan.entry = "legacy" /\ fplan.pc \in {"frames", "done"}) =>
        /\ fplan.head >= 0 /\ fplan.scroll >= 0 /\ fplan.tail >= 0
        /\ fplan.head + fplan.scroll + fplan.tail = fplan.total_frames
        /\ \A k \in 1..Len(fplan.rows) :
              LET i == k - 1
              IN fplan.rows[k] =
                    IF i < fplan.head THEN 0
                    ELSE IF i < fplan.head + fplan.scroll
                         THEN ((i - fplan.head) * fplan.scroll_speed[1])
                                  \div fplan.scroll_speed[2]
                    ELSE Max(0, fplan.img_height - fplan.height)

C27_Witness ==
    /\ fplan.phase = "on" /\ fplan.entry = "legacy" /\ fplan.pc = "done"
    /\ fplan.scroll > 1 /\ Len(fplan.rows) = fplan.total_frames
    /\ fplan.scroll_speed[2] > 1

\* C28: in create_scrolling_video every frame of every batch is written to
\* the encoder exactly once, also when fast_frame_processor raises in the
\* middle of a batch and the standard processing takes over.
C28_LegacyFramesWrittenOnce ==
    old.phase = "on" =>
        /\ \A i, j \in 1..Len(written) : written[i] = written[j] => i = j
        /\ old.outcome = "output_path" =>
              \A f \in 0..(old.total_frames - 1) :
                  \E i \in 1..Len(written) : written[i] = f

\* C29: when the frame stream of create_scrolling_video_optimized has ended
\* and the encoder is still running, its stdin is closed before the wait
\* for its exit begins, and no frame is written once stdin is closed.
C29_StdinClosedBeforeWait ==
    /\ []((pc \in {"wait", "wait_kill"} /\ encState = "running") => stdin_closed)
    /\ [][stdin_closed =>
             (written' = written /\ writeAttempts' = writeAttempts)]_vars

C29_Witness ==
    /\ pc = "wait" /\ encState = "running" /\ stdin_closed
    /\ Len(written) = total_frames /\ total_frames > 0

\* C30: the shared-memory segment that a call creates for the source image
\* has been closed and unlinked when the call has returned, whatever the
\* path out of the call.
C30_SharedMemoryUnlinkedOnReturn ==
    (pc = "done" /\ "shm_created" \in hist) => "shm_unlinked" \in hist

\* Frames of the current batch that pool.map has returned and the write loop
\* of lines 678-706 has not yet written or given up.
PendingFrames ==
    IF pc \in {"result", "write"}
    THEN Cardinality({k \in ri..Len(results) : results[k] # NoFrame})
    ELSE 0

\* C31: the frames computed by the pool and not yet written never exceed one
\* batch of 12, hence never pool_size * batch_size * 2; a batch is submitted
\* only when no frame of the previous batch is still waiting to be written;
\* and a frame is written only while the encoder is running and reading.
C31_PendingFramesBounded ==
    /\ [](/\ PendingFrames <= chunk_size
          /\ \A c \in CpuCounts : PendingFrames <= pool_size(c) * chunk_size * 2
          /\ Len(written) + PendingFrames <= computed)
    /\ [][computed' # computed => PendingFrames = 0]_vars
    /\ [][Len(written') > Len(written) =>
             (encState = "running" /\ encReadOpen /\ ~encStalled)]_vars

C31_Witness ==
    /\ pc = "write" /\ batch_idx = 1 /\ PendingFrames > 0
    /\ Len(written) = chunk_size

\* C32: the watchdog does not call terminate() once every frame has been
\* written: a step in which the watchdog terminates the encoder starts in a
\* state with frames_processed < total_frames.
C32_NoTerminateAfterLastFrame ==
    [][("watchdog_terminate" \in hist' /\ "watchdog_terminate" \notin hist)
          => frames_processed < total_frames]_vars

\* C33: after a batch loop that ended short of total_frames the watchdog does
\* not terminate an encoder that is finishing its output: no step in which
\* the watchdog calls terminate() starts with stdin closed, the encoder
\* running and reading, and fewer than total_frames frames written.
C33_NoTerminateAfterShortLoop ==
    [][("watchdog_terminate" \in hist' /\ "watchdog_terminate" \notin hist)
          => ~(/\ stdin_closed /\ encState = "running" /\ ~encStalled
               /\ frames_processed < total_frames)]_vars

\* ------------------------------------ watchdog_handler against the clock
\* Lines 566-661 on their own: the streaming thread writes frames at times of
\* its choosing, report_progress sets the event, and the watchdog thread runs
\* statement by statement.  Time advances in steps of WdgStep seconds; an
\* elapsed time that equals a limit on this grid stands for real times on
\* either side of the limit.
WdgStep == TickSeconds \div 3
WdgTotals == {2, 3}
WdgCap(t) == Min(t + WdgStep, watchdog_timeout + TickSeconds)

wdgOnly == UNCHANGED <<pipeVars, wdVars, encVars, histVars, gen, old, svc, prep, sel, io, fplan>>

\* Lines 566-567, 570 and 611-612, 656-658: the state when the watchdog
\* thread starts.
WdgInit ==
    /\ \E t \in WdgTotals :
          wdg = [phase |-> "on", pc |-> "wait", total_frames |-> t,
                 frames_processed |-> 0, watchdog_event |-> FALSE,
                 last_check_frames |-> 0, sinceCheck |-> 0, waited |-> 0,
                 sinceReport |-> 0, sinceWrite |-> 0, slow |-> FALSE,
                 seen |-> -1, seenElapsed |-> 0, terminated |-> FALSE]
    /\ PipeOff /\ GenIdle /\ OldIdle /\ SvcIdle /\ PrepIdle /\ SelIdle /\ IoIdle /\ PlanIdle

\* Lines 690-700 with report_progress (572-605): one frame is written,
\* frames_processed += 1, and the event is set when at least 0.5 s have
\* passed since the last report.
WdgWrite ==
    /\ wdg.phase = "on"
    /\ wdg.frames_processed < wdg.total_frames
    /\ \E due \in (IF wdg.sinceReport > 0 THEN {TRUE} ELSE BOOLEAN) :
          wdg' = [wdg EXCEPT !.frames_processed = @ + 1,
                             !.sinceWrite = 0,
                             !.sinceReport = IF due THEN 0 ELSE @,
                             !.watchdog_event = IF due THEN TRUE ELSE @]
    /\ wdgOnly

\* Lines 661, 727 and 826: watchdog_event.set() by the streaming thread.
WdgSet ==
    /\ wdg.phase = "on" /\ ~wdg.watchdog_event
    /\ wdg' = [wdg EXCEPT !.watchdog_event = TRUE]
    /\ wdgOnly

\* The test of line 634 with half the limit.
timed_out_Half(elapsed) == Exceeds(elapsed, TickSeconds)

\* Line 634: current_time - last_check_time > watchdog_timeout.
timed_out(elapsed) == Exceeds(elapsed, watchdog_timeout)

\* Lines 617-653, one statement at a time.  seen and seenElapsed record the
\* value of frames_processed read at line 632 and the elapsed time found at
\* line 634.
watchdog_handler ==
    /\ wdg.phase = "on"
    /\ \/ /\ wdg.pc = "wait" /\ wdg.watchdog_event
          /\ wdg' = [wdg EXCEPT !.pc = "clear", !.waited = 0]
       \/ /\ wdg.pc = "wait" /\ ~wdg.watchdog_event
          /\ wdg.waited >= TickSeconds
          /\ wdg' = [wdg EXCEPT !.pc = "stall", !.waited = 0]
       \/ /\ wdg.pc = "clear"
          /\ wdg' = [wdg EXCEPT !.pc = "read_frames", !.watchdog_event = FALSE]
       \/ /\ wdg.pc \in {"read_frames", "reset_frames"}
          /\ wdg' = [wdg EXCEPT !.last_check_frames = wdg.frames_processed,
                                !.pc = IF wdg.pc = "read_frames"
                                       THEN "read_time" ELSE "reset_time"]
       \/ /\ wdg.pc = "read_time"
          /\ wdg' = [wdg EXCEPT !.sinceCheck = 0, !.pc = "fin"]
       \/ /\ wdg.pc = "reset_time"
          /\ wdg' = [wdg EXCEPT !.sinceCheck = 0, !.pc = "wait"]
       \/ /\ wdg.pc = "fin"
          /\ wdg' = [wdg EXCEPT !.pc = IF wdg.frames_processed >= wdg.total_frames
                                       THEN "done" ELSE "wait"]
       \/ /\ wdg.pc = "stall"
          /\ wdg' = [wdg EXCEPT !.seen = wdg.frames_processed,
                                !.pc = IF wdg.frames_processed = wdg.last_check_frames
                                       THEN "time" ELSE "reset_frames"]
       \/ /\ wdg.pc = "time"
          /\ \E late \in timed_out(wdg.sinceCheck) :
                wdg' = [wdg EXCEPT !.seenElapsed = wdg.sinceCheck,
                                   !.pc = IF late THEN "recheck" ELSE "wait"]
       \/ /\ wdg.pc = "recheck"
          /\ wdg' = [wdg EXCEPT !.pc = IF wdg.frames_processed >= wdg.total_frames
                                       THEN "done" ELSE "term"]
       \/ /\ wdg.pc = "term"
          /\ wdg' = [wdg EXCEPT !.terminated = TRUE, !.pc = "done"]
    /\ wdgOnly

\* WdgStep seconds pass.  The watchdog thread spends its time in the timed
\* wait of line 619, which does not oversleep; the statements between two
\* waits take no time, while the streaming thread may act between any two
\* of them.
WdgTick ==
    /\ wdg.phase = "on"
    /\ wdg.pc \in {"wait", "done"}
    /\ ~(wdg.pc = "wait" /\ wdg.waited >= TickSeconds)
    /\ wdg' = [wdg EXCEPT
                 !.sinceCheck = WdgCap(@),
                 !.sinceWrite = WdgCap(@),
                 !.slow = @ \/ WdgCap(wdg.sinceWrite) >= watchdog_timeout,
                 !.sinceReport = Min(@ + WdgStep, WdgStep),
                 !.waited = IF wdg.pc = "wait" THEN Min(@ + WdgStep, TickSeconds)
                            ELSE @]
    /\ wdg' # wdg
    /\ wdgOnly

WdgNext == WdgWrite \/ WdgSet \/ watchdog_handler \/ WdgTick

WdgSpec == WdgInit /\ [][WdgNext]_vars

\* C34: the watchdog has called terminate() only if frames_processed had at
\* line 632 the value recorded at the last check and more than
\* watchdog_timeout seconds lay between the two checks, and then at least
\* watchdog_timeout seconds had passed without a frame being written; the
\* event set by report_progress does not change that.
C34_TerminateOnlyAfterStall ==
    (wdg.phase = "on" /\ wdg.terminated) =>
        /\ wdg.seen = wdg.last_check_frames
        /\ wdg.seenElapsed >= watchdog_timeout
        /\ wdg.slow

C34_Witness ==
    /\ wdg.phase = "on" /\ wdg.terminated
    /\ wdg.frames_processed > 0 /\ wdg.frames_processed < wdg.total_frames

\* C35: frames_processed counts the frames written to the encoder: it is 0
\* before the loop, equals the number of frames written, never exceeds
\* total_frames once the plan is made, changes only by +1 together with a
\* write, and is left alone by a failed write and by a skipped result.
C35_FramesProcessedCountsWrites ==
    /\ [](pc # "off" =>
            /\ frames_processed = Len(written)
            /\ (pc \in {"prep", "spawn"} => frames_processed = 0)
            /\ (pc # "prep" => frames_processed <= total_frames))
    /\ [][frames_processed' # frames_processed =>
             /\ frames_processed' = frames_processed + 1
             /\ written' = Append(written, results[ri])
             /\ writeAttempts' = writeAttempts + 1]_vars
    /\ [][(hist' # hist \/ (pc = "result" /\ ri' = ri + 1)) =>
             frames_processed' = frames_processed]_vars

C35_Witness ==
    /\ pc = "done" /\ "write_error" \in hist
    /\ frames_processed > 0 /\ frames_processed < total_frames

C37_LegacyStartRowsBoundedMonotone ==
    (fplan.phase = "on" /\ fplan.entry = "legacy") =>
        /\ \A k \in 1..Len(fplan.rows) :
              /\ fplan.rows[k] >= 0
              /\ fplan.rows[k] <= Max(0, fplan.img_height - fplan.height)
        /\ \A k \in 1..(Len(fplan.rows) - 1) : fplan.rows[k] <= fplan.rows[k + 1]

C37_Witness ==
    /\ fplan.phase = "on" /\ fplan.entry = "legacy" /\ fplan.pc = "done"
    /\ fplan.img_height > fplan.height /\ fplan.scroll > 2
    /\ Len(fplan.rows) = fplan.total_frames
    /\ fplan.rows[fplan.total_frames] = fplan.img_height - fplan.height
    /\ fplan.rows[fplan.head + 2] > 0

\* C38: a call of create_scrolling_video_optimized leaves NO_GPU as it found
\* it: a call whose handler found NO_GPU set returns with it set, a call that
\* took the fallback path without finding it set returns without it, and no
\* step outside the handler and its finally clause touches the variable.
C38_NoGpuRestored ==
    /\ []((pc = "done" /\ "no_gpu_overwritten" \in hist) => no_gpu_env)
    /\ []((pc = "done" /\ attempts > 1 /\ "no_gpu_overwritten" \notin hist)
            => ~no_gpu_env)
    /\ [][no_gpu_env' # no_gpu_env => pc \in {"outer_except", "finally"}]_vars

\* C39: the effective speed of create_roll_video is at least 0.5 and, for a
\* fixed scale_factor, no smaller than the effective speed of any smaller
\* requested scroll_speed.
C39_EffectiveSpeedMonotone ==
    (svc.phase = "on" /\ svc.pc # "scale") =>
        /\ ~RatLess(svc.scaled_scroll_speed, Half)
        /\ \A s \in SvcScrollSpeeds :
              s <= svc.scroll_speed =>
                  ~RatLess(svc.scaled_scroll_speed,
                           scaled_scroll_speed_of(s, svc.scale_factor))

====
